---- MODULE Spec2Model ----
(***************************************************************************)
(* A model of odesolvers/ODE.py: the parameter registry and the per-solver *)
(* configuration (set / get / switch_to), and the time loop of solve.      *)
(*                                                                         *)
(* Python values are records [ty, num, den, str, chain]: ty is the Python  *)
(* type, num/den a rational number (or the identity of a tuple / dict, or  *)
(* the length of a sequence), str a string (or the name of a function),    *)
(* and chain the solver instances whose wrapper lambdas enclose a callable *)
(* (outermost first).                                                      *)
(***************************************************************************)
EXTENDS Integers, Sequences, FiniteSets, TLC

VARIABLES
    solvers,      \* the solver instances created so far (a sequence of records)
    prev,         \* the solver instances as they were before the last operation
    last,         \* the last operation: what was called, on which instance, its outcome
    pc,           \* where the running solve call is: "idle", "advance", "terminate",
                  \* "attempt", "extend", "done", "raised"
    time_points,  \* the time_points argument of the running solve call
    self_t,       \* self.t of the instance that solves
    self_u,       \* self.u of the instance that solves
    self_n,       \* self.n: the loop counter n of Solver.solve
    calls,        \* the calls of advance and of terminate made by the running solve
    raised,       \* the exception that ended the solve call ("" if none)
    terminated,   \* the terminate predicate returned True in the time loop
    f_n_1,        \* self.f_n_1 of AdamsBashforth2
    hist,         \* self.f_n, self.f_n_1, self.f_n_2, self.f_n_3 of AdamsBashforth3/4
    inner,        \* the passes of the while loop of the last SolverImplicit.advance
    ar,           \* the local variables of AdaptiveResidual.solve
    rk            \* the local variables of RKFehlberg.advance

cfgvars == <<solvers, prev, last>>
loopvars == <<pc, time_points, self_t, self_u, self_n, calls, raised, terminated, f_n_1, hist,
             inner, ar, rk>>
vars == <<solvers, prev, last, pc, time_points, self_t, self_u, self_n, calls, raised,
          terminated, f_n_1, hist, inner, ar, rk>>

(* ----------------------------- bounds --------------------------------- *)
MaxSolvers == 2    \* solver instances (the first one and those made by switch_to)
MaxBatch == 2      \* keyword arguments in one set / switch_to call

(* --------------------------- Python values ---------------------------- *)
Val(ty, num, den, str) ==
    [ty |-> ty, num |-> num, den |-> den, str |-> str, chain |-> <<>>]

PyNone == Val("NoneType", 0, 1, "")
PyInt(n) == Val("int", n, 1, "")
PyFloat(n, d) == Val("float", n, d, "")
PyBool(b) == Val("bool", IF b THEN 1 ELSE 0, 1, "")
PyStr(s) == Val("str", 0, 1, s)
PyTuple(k) == Val("tuple", k, 1, "")      \* k = 0 is the empty tuple ()
PyDict(k) == Val("dict", k, 1, "")        \* k = 0 is the empty dict {}
PyList(len) == Val("list", len, 1, "")    \* a list of len numbers
PyArray(len) == Val("ndarray", len, 1, "")
PyFunc(name) == Val("function", 0, 1, name)
Unset == Val("unset", 0, 1, "")           \* the attribute does not exist

IsNumber(v) == v.ty \in {"float", "int", "bool", "complex"}

\* isinstance(value, tp) for the type names the registry declares
IsInstance(v, tp) ==
    CASE tp = "int" -> v.ty \in {"int", "bool"}      \* bool subclasses int
      [] OTHER -> v.ty = tp

\* callable(value)
IsCallable(v) == v.ty = "function"

\* a <= b as Python 2 orders them: numbers by value, any number before any string
PyLE(a, b) ==
    CASE IsNumber(a) /\ IsNumber(b) -> a.num * b.den <= b.num * a.den
      [] IsNumber(a) /\ ~IsNumber(b) -> TRUE
      [] ~IsNumber(a) /\ IsNumber(b) -> FALSE
      [] OTHER -> a.str = b.str

(* ------------------------ the parameter registry ---------------------- *)
\* One entry of _parameters: declared types, default (Unset if none), range
\* (<<>> if none), extra_check ("" if none), condition-list ({} if none).
Entry(types, default, range) ==
    [type |-> types, default |-> default, range |-> range,
     extra_check |-> "", condition_list |-> {}]

\* The entries of _parameters that the solver kinds below make legal.
Parameters ==
    [name \in {"f", "f_args", "f_kwargs", "complex_valued", "jac", "jac_args",
               "jac_kwargs", "h_in_fd_jac", "start_method", "nonlinear_solver",
               "eps_iter", "max_iter", "theta", "relaxation", "atol", "rtol",
               "min_step", "max_step", "first_step", "solver"} |->
       CASE name = "f" -> Entry({"callable"}, Unset, <<>>)
         [] name = "f_args" -> Entry({"tuple", "list", "ndarray"}, PyTuple(0), <<>>)
         [] name = "f_kwargs" -> Entry({"dict"}, PyDict(0), <<>>)
         [] name = "complex_valued" -> Entry({"bool"}, PyBool(FALSE), <<>>)
         [] name = "jac" -> Entry({"callable"}, PyNone, <<>>)
         [] name = "jac_args" -> Entry({"tuple", "list"}, PyTuple(0), <<>>)
         [] name = "jac_kwargs" -> Entry({"dict"}, PyDict(0), <<>>)
         [] name = "h_in_fd_jac" -> Entry({"float"}, PyFloat(1, 10000), <<>>)
         [] name = "start_method" -> Entry({"str"}, PyStr("RK2"), <<>>)
         [] name = "nonlinear_solver" ->
                Entry({"str"}, PyStr("Picard"), <<PyStr("Newton"), PyStr("Picard")>>)
         [] name = "eps_iter" -> Entry({"float"}, PyFloat(1, 10000), <<>>)
         [] name = "max_iter" -> Entry({"int"}, PyInt(25), <<>>)
         [] name = "theta" ->
                Entry({"int", "float"}, PyFloat(1, 2), <<PyInt(0), PyInt(1)>>)
         [] name = "relaxation" -> Entry({"float"}, PyFloat(1, 1), <<>>)
         [] name = "atol" ->
                Entry({"float", "list", "tuple", "ndarray"}, PyFloat(1, 100000000), <<>>)
         [] name = "rtol" ->
                Entry({"list", "tuple", "ndarray", "float"}, PyFloat(1, 1000000), <<>>)
         [] name = "min_step" -> Entry({"float"}, Unset, <<>>)
         [] name = "max_step" -> Entry({"float"}, Unset, <<>>)
         [] name = "first_step" -> Entry({"float"}, Unset, <<>>)
         [] name = "solver" -> Entry({"str"}, PyStr("RK4"), <<>>)]

(* --------------------------- solver kinds ----------------------------- *)
Kinds == {"Euler", "AdamsBashforth2", "ThetaRule"}

\* the multistep kinds followed: each has the start_method parameter, makes its
\* starter in set_internal_parameters and overrides validate_data, with the
\* same code
MultistepKinds == {"AdamsBashforth2", "AdamsBashforth3", "AdamsBashforth4"}

\* the subclasses of SolverImplicit
ImplicitKinds == {"BackwardEuler", "Backward2Step", "ThetaRule", "MidpointImplicit"}

Solver_required_parameters == {"f"}
Solver_optional_parameters == {"f_args", "f_kwargs", "complex_valued"}
Adaptive_optional_parameters ==
    Solver_optional_parameters \cup {"rtol", "atol", "first_step", "min_step", "max_step"}
SolverImplicit_optional_parameters ==
    Solver_optional_parameters \cup
    {"jac", "jac_args", "jac_kwargs", "h_in_fd_jac", "nonlinear_solver",
     "max_iter", "eps_iter", "relaxation"}

required_parameters(kind) == Solver_required_parameters

optional_parameters(kind) ==
    CASE kind \in MultistepKinds -> Solver_optional_parameters \cup {"start_method"}
      [] kind = "ThetaRule" -> SolverImplicit_optional_parameters \cup {"theta"}
      [] kind \in ImplicitKinds -> SolverImplicit_optional_parameters
      [] kind = "AdaptiveResidual" -> Adaptive_optional_parameters \cup {"solver"}
      [] kind = "RKFehlberg" -> Adaptive_optional_parameters
      [] OTHER -> Solver_optional_parameters

\* self._parameters: the registry filtered to the names of the kind
LegalNames(kind) ==
    {name \in DOMAIN Parameters :
        name \in optional_parameters(kind) \/ name \in required_parameters(kind)}

Restrict(fn, S) == [x \in S |-> fn[x]]

(* ------------------------------ Solver.set ---------------------------- *)
Min(S) == CHOOSE x \in S : \A y \in S : x <= y

\* One declared type accepts the value: "tp == callable and callable(value)", else
\* isinstance(value, tp); isinstance(value, callable) itself raises TypeError.
TypeAccepts(types, v) ==
    /\ ~("callable" \in types /\ ~IsCallable(v))
    /\ \E tp \in types :
          IF tp = "callable" THEN IsCallable(v) ELSE IsInstance(v, tp)

\* check_input_types: TRUE when no TypeError is raised
check_input_types(parameters, kwargs) ==
    \A name \in DOMAIN parameters :
        name \in DOMAIN kwargs => TypeAccepts(parameters[name].type, kwargs[name])

\* "value in ranges" (== on numbers compares their values)
InRanges(v, ranges) ==
    \E i \in 1..Len(ranges) : PyLE(v, ranges[i]) /\ PyLE(ranges[i], v)

\* the declared range as the registry means it: a number lies in the closed
\* interval between the two endpoints, in whichever order they are given; any
\* other value is one of the listed values
InDeclaredRange(v, ranges) ==
    \/ ranges = <<>>
    \/ /\ IsNumber(v) /\ Len(ranges) = 2 /\ IsNumber(ranges[1])
       /\ \/ PyLE(ranges[1], v) /\ PyLE(v, ranges[2])
          \/ PyLE(ranges[2], v) /\ PyLE(v, ranges[1])
    \/ /\ ~(IsNumber(v) /\ Len(ranges) = 2 /\ IsNumber(ranges[1]))
       /\ InRanges(v, ranges)

\* check_input_range: TRUE when no ValueError is raised. Only values that are
\* float, int or complex are looked at.
check_input_range(parameters, kwargs) ==
    \A name \in DOMAIN parameters :
        (name \in DOMAIN kwargs /\ parameters[name].range # <<>>) =>
            LET ranges == parameters[name].range
                value == kwargs[name]
            IN  IsNumber(value) =>
                    IF Len(ranges) = 2
                    THEN \/ PyLE(ranges[1], value) /\ PyLE(value, ranges[2])
                         \/ PyLE(value, ranges[1]) /\ PyLE(ranges[2], value)
                    ELSE InRanges(value, ranges)

\* the extra_check functions of the registry, by name
ExtraCheckHolds(check, v) ==
    CASE check = "x>=1" -> IsNumber(v) /\ v.num >= v.den
      [] check = "x>=4" -> IsNumber(v) /\ v.num >= 4 * v.den
      [] OTHER -> TRUE

\* check_extra: TRUE when no ValueError is raised
check_extra(parameters, kwargs) ==
    \A name \in DOMAIN parameters :
        (name \in DOMAIN kwargs /\ parameters[name].extra_check # "") =>
            ExtraCheckHolds(parameters[name].extra_check, kwargs[name])

\* check_conditional_parameters: TRUE when no ValueError is raised. A condition
\* is [value, needs]: when str(value of the parameter) is value, each element of
\* needs (a set of alternative names) must have one name assigned.
check_conditional_parameters(parameters, attrs) ==
    \A name \in DOMAIN parameters :
        name \in DOMAIN attrs =>
            \A c \in parameters[name].condition_list :
                c.value = attrs[name].str =>
                    \A alt \in c.needs : \E p \in alt : p \in DOMAIN attrs

\* "for name in kwargs: setattr(self, name, kwargs[name])"
Assign(attrs, kwargs) ==
    [name \in DOMAIN attrs \cup DOMAIN kwargs |->
        IF name \in DOMAIN kwargs THEN kwargs[name] ELSE attrs[name]]

\* Solver.set(strict, **kw) on the instance self. order is the order in which
\* the dictionary kw is iterated. Returns the error raised ("" if none) and the
\* attributes of the instance when set returns or raises.
set(self, strict, kw, order) ==
    LET parameters == Restrict(Parameters, LegalNames(self.kind))
        illegalAt == {i \in 1..Len(order) : order[i] \notin DOMAIN parameters}
        stop == IF strict /\ illegalAt # {} THEN Min(illegalAt) ELSE Len(order) + 1
        visited == {order[i] : i \in 1..(stop - 1)}
        \* "elif kwargs[name] is None: ... del self.__dict__[name]"
        deleted == {name \in visited :
                       name \in DOMAIN parameters /\ kw[name] = PyNone}
        attrs1 == Restrict(self.attrs, DOMAIN self.attrs \ deleted)
        kwargs == Restrict(kw, {name \in DOMAIN kw :
                                   name \in DOMAIN parameters /\ kw[name] # PyNone})
        attrs2 == Assign(attrs1, kwargs)
    IN  IF stop <= Len(order)
        THEN [err |-> "ValueError", attrs |-> attrs1]
        ELSE IF ~check_input_types(parameters, kwargs)
        THEN [err |-> "TypeError", attrs |-> attrs1]
        ELSE IF ~check_input_range(parameters, kwargs)
        THEN [err |-> "ValueError", attrs |-> attrs1]
        ELSE IF ~check_extra(parameters, kwargs)
        THEN [err |-> "ValueError", attrs |-> attrs1]
        ELSE IF ~check_conditional_parameters(parameters, attrs2)
        THEN [err |-> "ValueError", attrs |-> attrs2]
        ELSE [err |-> "", attrs |-> attrs2]

\* Solver.get(None): the legal names that are attributes, with their values
get(self) ==
    Restrict(self.attrs, {name \in LegalNames(self.kind) : name \in DOMAIN self.attrs})

\* attributes of the class Solver, which every instance has (two of them)
ClassAttributes == {"_required_parameters", "solve"}

\* hasattr(self, name): the names assigned on the instance and those of its class
hasattr(self, name) ==
    \/ name \in DOMAIN self.attrs
    \/ name \in {"U0", "neq"} /\ self.U0 # Unset
    \/ name \in ClassAttributes

\* getattr(self, name) where hasattr(self, name)
getattr(self, name) ==
    CASE name \in DOMAIN self.attrs -> self.attrs[name]
      [] name = "U0" -> self.U0
      [] name = "neq" -> PyInt(self.neq)
      [] name = "_required_parameters" -> PyList(Cardinality(required_parameters(self.kind)))
      [] OTHER -> Val("instancemethod", 0, 1, name)

\* Solver.get(parameter_name): the error raised ("" if none) and the value returned
get_name(self, parameter_name) ==
    IF hasattr(self, parameter_name)
    THEN [err |-> "", value |-> getattr(self, parameter_name)]
    ELSE [err |-> "AttributeError", value |-> PyNone]

(* --------------------- the right-hand side binding --------------------- *)
\* "self.f = lambda u, t: np.asarray(f(u, t, *self.f_args, **self.f_kwargs))":
\* the wrapper made by instance id around the callable f
Wrap(id, f) == [f EXCEPT !.chain = <<id>> \o @]

\* What a call fv(u, t, *args, **kwargs) does, args and kwargs given by their
\* identities (0: empty): the error raised, or the user's function reached and
\* the extra arguments it is called with. A wrapper takes (u, t) only and reads
\* f_args and f_kwargs of the instance that made it when it is called.
RECURSIVE CallF(_, _, _, _)
CallF(S, fv, args, kwargs) ==
    IF fv.chain = <<>>
    THEN [err |-> "", fn |-> fv.str, args |-> args, kwargs |-> kwargs]
    ELSE IF args # 0 \/ kwargs # 0
    THEN [err |-> "TypeError", fn |-> "", args |-> 0, kwargs |-> 0]
    ELSE LET owner == S[Head(fv.chain)].attrs
         IN  IF "f_args" \notin DOMAIN owner \/ "f_kwargs" \notin DOMAIN owner
             THEN [err |-> "AttributeError", fn |-> "", args |-> 0, kwargs |-> 0]
             ELSE CallF(S, [fv EXCEPT !.chain = Tail(@)],
                        owner["f_args"].num, owner["f_kwargs"].num)

\* self.f(u, t) of instance i
Rhs(S, i) ==
    IF "f" \in DOMAIN S[i].attrs
    THEN CallF(S, S[i].attrs["f"], 0, 0)
    ELSE [err |-> "AttributeError", fn |-> "", args |-> 0, kwargs |-> 0]

(* --------------------------- Solver.__init__ --------------------------- *)
\* Solver.set_initial_condition: neq and U0 as stored
InitialCondition(U0) ==
    IF U0.ty \in {"list", "tuple", "ndarray"}
    THEN [neq |-> U0.num, U0 |-> PyArray(U0.num)]
    ELSE [neq |-> 1, U0 |-> IF U0.ty = "int" THEN PyFloat(U0.num, 1) ELSE U0]

\* "for name in self._parameters: if 'default' in self._parameters[name]:
\* setattr(self, name, self._parameters[name]['default'])" on a new instance
Defaults(kind) ==
    [kind |-> kind,
     attrs |-> Restrict([name \in DOMAIN Parameters |-> Parameters[name].default],
                        {name \in LegalNames(kind) : Parameters[name].default # Unset}),
     U0 |-> Unset, neq |-> 0]

\* "nones = [name for name in kwargs if kwargs[name] is None]; for name in
\* nones: del kwargs[name]"
WithoutNones(kw) == Restrict(kw, {name \in DOMAIN kw : kw[name] # PyNone})

\* the rest of Solver.__init__ after r = self.set(**kwargs) on the instance new
\* with identity id: the error raised ("" if none) and the instance
Solver_init(id, f, new, r) ==
    IF r.err # ""
    THEN [err |-> r.err, self |-> new]
    ELSE IF f = PyNone
    THEN [err |-> "", self |-> [new EXCEPT !.attrs = r.attrs]]
    ELSE IF ~IsCallable(f)
    THEN [err |-> "TypeError", self |-> new]
    ELSE [err |-> "",
          self |-> [new EXCEPT !.attrs = Assign(r.attrs, [x \in {"f"} |-> Wrap(id, f)])]]

\* kind(f, **kw) constructing instance id: defaults, then set(**kw) without the
\* None values, then the wrapped f
Construct(id, kind, f, kw) ==
    Solver_init(id, f, Defaults(kind), set(Defaults(kind), FALSE, WithoutNones(kw), <<>>))

(* --------------------------- Solver.switch_to -------------------------- *)
\* the names eval() resolves to a subclass of Solver
SolverNames ==
    Kinds \cup {"RK2", "RK4", "AdaptiveResidual", "LeapfrogFiltered", "AdamsBashforth3",
                "AdamsBashforth4", "RKFehlberg"} \cup ImplicitKinds

\* switch_to_args that also leaves complex_valued behind
switch_to_args_less(self, solver_target, kw) ==
    Assign(Restrict(self.attrs,
                    {name \in optional_parameters(solver_target) \cap
                              optional_parameters(self.kind) :
                        name \in DOMAIN self.attrs /\
                        name \notin {"f_f77", "f_args", "f_kwargs", "f", "complex_valued"}}),
           Restrict(kw, DOMAIN kw \ {"f"}))

\* the keyword arguments switch_to constructs the new instance with: the
\* attributes of self named optional by both kinds, less f_f77, f_args,
\* f_kwargs and f, updated with kw less f
switch_to_args(self, solver_target, kw) ==
    Assign(Restrict(self.attrs,
                    {name \in optional_parameters(solver_target) \cap
                              optional_parameters(self.kind) :
                        name \in DOMAIN self.attrs /\
                        name \notin {"f_f77", "f_args", "f_kwargs", "f"}}),
           Restrict(kw, DOMAIN kw \ {"f"}))

\* switch_to_f that does not take the f of self
switch_to_f_dropped(self, kw) ==
    IF "f" \in DOMAIN kw THEN kw["f"] ELSE PyNone

\* "f = kwargs.pop('f') if 'f' in kwargs else getattr(self, 'f', None)"
switch_to_f(self, kw) ==
    IF "f" \in DOMAIN kw THEN kw["f"]
    ELSE IF "f" \in DOMAIN self.attrs THEN self.attrs["f"] ELSE PyNone

\* the end of switch_to, c being the result of the constructor: the new
\* instance gets the initial condition of self
switch_to_U0(self, c) ==
    IF c.err # "" \/ self.U0 = Unset
    THEN c
    ELSE [err |-> "", self |-> [c.self EXCEPT !.U0 = InitialCondition(self.U0).U0,
                                             !.neq = InitialCondition(self.U0).neq]]

\* self.switch_to(solver_target, **kw) for self = S[i], the new instance getting
\* identity id: the error raised ("" if none) and the new instance
switch_to(S, i, id, solver_target, kw) ==
    IF solver_target \notin SolverNames
    THEN [err |-> "ValueError", self |-> S[i]]
    ELSE switch_to_U0(S[i], Construct(id, solver_target, switch_to_f(S[i], kw),
                                      switch_to_args(S[i], solver_target, kw)))

(* ------------------- solve: what it does before the loop --------------- *)
\* value.dtype: dt, the dtype of what the user's f returns, or without f the
\* dtype of np.asarray(self.U0) (a float, or an array of integers)
ValueDtype(U0, attrs, dt) ==
    IF "f" \in DOMAIN attrs THEN dt
    ELSE IF U0.ty = "ndarray" THEN "int" ELSE "float"

\* self.dtype
Dtype(attrs, dt) ==
    IF dt = "int"
    THEN (IF attrs["complex_valued"].num # 0 THEN "complex" ELSE "float")
    ELSE dt

\* Solver.set_internal_parameters on S[i] with attributes attrs and self.t = t,
\* rhs being what the call self.f(self.U0, self.t[0]) does: the error raised
\* ("" if none) and the attributes afterwards
Solver_set_internal_parameters_rhs(S, i, attrs, t, dt, rhs) ==
    IF S[i].U0 = Unset
    THEN [err |-> "AttributeError", attrs |-> attrs]
    ELSE IF t = <<>>
    THEN [err |-> "IndexError", attrs |-> attrs]
    ELSE IF "f" \in DOMAIN attrs /\ rhs.err # ""
    THEN [err |-> rhs.err, attrs |-> attrs]
    ELSE IF ValueDtype(S[i].U0, attrs, dt) = "int" /\ "complex_valued" \notin DOMAIN attrs
    THEN [err |-> "AttributeError", attrs |-> attrs]
    ELSE [err |-> "",
          attrs |-> Assign(attrs, [x \in {"complex_valued"} |->
                       PyBool(Dtype(attrs, ValueDtype(S[i].U0, attrs, dt)) = "complex")])]

Solver_set_internal_parameters(S, i, attrs, t, dt) ==
    Solver_set_internal_parameters_rhs(S, i, attrs, t, dt,
                                       Rhs([S EXCEPT ![i].attrs = attrs], i))

\* getattr(self, name, None)
GetAttr(attrs, name) == IF name \in DOMAIN attrs THEN attrs[name] ELSE PyNone

\* SolverImplicit.set_internal_parameters up to its call of the base method:
\* the attributes afterwards
SolverImplicit_set_internal_parameters(i, attrs) ==
    IF GetAttr(attrs, "jac") = PyNone
    THEN IF GetAttr(attrs, "nonlinear_solver") = PyNone
         THEN Assign(attrs, [x \in {"nonlinear_solver"} |-> PyStr("Picard")])
         ELSE IF GetAttr(attrs, "nonlinear_solver") = PyStr("Newton")
         THEN Assign(attrs, [x \in {"jac"} |-> Wrap(i, PyFunc("approximate_Jacobian"))])
         ELSE attrs
    ELSE Assign(IF GetAttr(attrs, "nonlinear_solver") = PyNone
                THEN Assign(attrs, [x \in {"nonlinear_solver"} |-> PyStr("Newton")])
                ELSE attrs,
                [x \in {"jac"} |-> Wrap(i, attrs["jac"])])

\* AdamsBashforth2.set_internal_parameters up to its call of the base method:
\* "self.starter = self.switch_to(self.start_method)", the error it raises and
\* the starter
AdamsBashforth2_starter(S, i) ==
    IF "start_method" \notin DOMAIN S[i].attrs
    THEN [err |-> "AttributeError", self |-> S[i]]
    ELSE switch_to(S, i, Len(S) + 1, S[i].attrs["start_method"].str, <<>>)

\* AdamsBashforth2.set_internal_parameters, starter being the result of
\* AdamsBashforth2_starter
AdamsBashforth2_set_internal_parameters(S, i, t, dt, starter) ==
    IF starter.err # ""
    THEN [err |-> starter.err, attrs |-> S[i].attrs]
    ELSE Solver_set_internal_parameters(S, i, S[i].attrs, t, dt)

\* set_internal_parameters of the kind of S[i]
set_internal_parameters(S, i, t, dt) ==
    CASE S[i].kind \in ImplicitKinds ->
            Solver_set_internal_parameters(
                S, i, SolverImplicit_set_internal_parameters(i, S[i].attrs), t, dt)
      [] S[i].kind \in MultistepKinds ->
            AdamsBashforth2_set_internal_parameters(S, i, t, dt,
                                                    AdamsBashforth2_starter(S, i))
      [] OTHER -> Solver_set_internal_parameters(S, i, S[i].attrs, t, dt)

(* ------------------------- Solver.validate_data ------------------------ *)
\* sorted(s, reverse): insertion of each element into the sorted rest
RECURSIVE InsertSorted(_, _, _)
InsertSorted(x, s, reverse) ==
    IF s = <<>> THEN <<x>>
    ELSE IF (IF reverse THEN x >= Head(s) ELSE x <= Head(s))
    THEN <<x>> \o s
    ELSE <<Head(s)>> \o InsertSorted(x, Tail(s), reverse)

RECURSIVE sorted(_, _)
sorted(s, reverse) ==
    IF s = <<>> THEN <<>>
    ELSE InsertSorted(Head(s), sorted(Tail(s), reverse), reverse)

\* Solver.validate_data with self.t = t (a sequence of real numbers): the error
\* raised, "" if it returns True
Solver_validate_data(kind, attrs, t) ==
    IF t # sorted(t, t[1] > t[Len(t)])
    THEN "ValueError"
    ELSE IF \E arg \in required_parameters(kind) : arg \notin DOMAIN attrs
    THEN "ValueError"
    ELSE ""

Abs(x) == IF x < 0 THEN -x ELSE x

\* Solver.constant_time_step: np.allclose(t, np.linspace(t[0], t[-1], len(t)))
\* with numpy's rtol = 1e-5 and atol = 1e-8, all terms scaled by (len(t) - 1)*10^8
constant_time_step(t) ==
    LET m == Len(t) - 1
    IN  \A k \in 1..Len(t) :
            LET lin == t[1] * m + (k - 1) * (t[Len(t)] - t[1])   \* linspace[k] * m
            IN  Abs(t[k] * m - lin) * 100000000 <= m + 1000 * Abs(lin)

\* AdamsBashforth2.validate_data: on a grid that is not uniform it evaluates
\* self.__name__, which an instance does not have
AdamsBashforth2_validate_data(t) ==
    IF ~constant_time_step(t) THEN "AttributeError" ELSE ""

\* validate_data of the kind
validate_data(kind, attrs, t) ==
    IF kind \in MultistepKinds
    THEN AdamsBashforth2_validate_data(t)
    ELSE Solver_validate_data(kind, attrs, t)

\* "u, f, n, t = self.u, self.f, self.n, self.t" at the top of advance: the
\* error raised by the first advance, "" if none
advance_error(attrs) ==
    IF "f" \notin DOMAIN attrs THEN "AttributeError" ELSE ""

\* the rest of Solver.solve as far as the configuration goes, sip being the
\* result of set_internal_parameters and v that of validate_data: the error
\* raised ("" if none) and the attributes of the instance afterwards
solve_config_end(t, sip, v) ==
    IF sip.err # "" THEN sip
    ELSE IF v # "" THEN [err |-> v, attrs |-> sip.attrs]
    ELSE IF Len(t) >= 2 /\ advance_error(sip.attrs) # ""
    THEN [err |-> advance_error(sip.attrs), attrs |-> sip.attrs]
    ELSE [err |-> "", attrs |-> sip.attrs]

solve_config_validate(kind, t, sip) ==
    solve_config_end(t, sip, validate_data(kind, sip.attrs, t))

solve_config(S, i, t, dt) ==
    solve_config_validate(S[i].kind, t, set_internal_parameters(S, i, t, dt))

(* ------------------------------- inputs -------------------------------- *)
MaxTime == 1       \* time points of a configuration run are integers 0..MaxTime
MaxPoints == 3     \* length of a time_points sequence of a configuration run
MaxWrap == 2       \* solve calls that wrap the Jacobian of one instance again

\* the time_points sequences of a configuration run: they start at time 0
TimeGrids ==
    UNION {{t \in [1..len -> 0..MaxTime] : len > 0 => t[1] = 0} : len \in 0..MaxPoints}

\* the values a keyword argument is given in set and switch_to
ArgValues(name) ==
    CASE name = "f_args" -> {PyTuple(1), PyNone, PyInt(5)}
      [] name = "complex_valued" -> {PyBool(TRUE), PyStr("yes")}
      [] name = "theta" -> {PyInt(1), PyInt(2)}
      [] name = "jac" -> {PyFunc("jac1")}
      [] name = "f" -> {PyFunc("f2"), PyNone}
      [] name = "nonlinear_solver" -> {PyStr("Newton"), PyStr("Foo")}

      [] OTHER -> {}


\* the keyword dictionaries over names with at most MaxBatch entries
Batches(names) ==
    UNION {{kw \in [D -> UNION {ArgValues(n) : n \in names}] :
               \A n \in D : kw[n] \in ArgValues(n)} :
           D \in {D \in SUBSET names : Cardinality(D) <= MaxBatch}}

\* the orders in which a dictionary with keys D can be iterated
Orders(D) ==
    {o \in [1..Cardinality(D) -> D] : \A a, b \in DOMAIN o : o[a] = o[b] => a = b}

\* the iteration order matters to set only when it raises for an illegal name
OrdersFor(kind, strict, D) ==
    IF strict /\ ~(D \subseteq LegalNames(kind))
    THEN Orders(D)
    ELSE {CHOOSE o \in Orders(D) : TRUE}

InitialConditions == {PyInt(1), PyList(2)}

\* the call supplies, for a legal name with a declared type, a value (not None)
\* of a type that is not among the declared ones
SuppliesWrongType(kind, kw) ==
    \E name \in DOMAIN kw :
        /\ name \in LegalNames(kind)
        /\ kw[name] # PyNone
        /\ ~TypeAccepts(Parameters[name].type, kw[name])

\* the call supplies, for a legal name with a declared range, a value (not
\* None) outside that range
SuppliesOutOfRange(kind, kw) ==
    \E name \in DOMAIN kw :
        /\ name \in LegalNames(kind)
        /\ kw[name] # PyNone
        /\ ~InDeclaredRange(kw[name], Parameters[name].range)

\* the call supplies one value and no other: a number that is an endpoint of
\* the declared interval of its legal name
SuppliesEndpoint(kind, kw) ==
    \E name \in LegalNames(kind) :
        /\ DOMAIN kw = {name}
        /\ Len(Parameters[name].range) = 2
        /\ IsNumber(kw[name])
        /\ kw[name] \in {Parameters[name].range[1], Parameters[name].range[2]}

SetBatches == Batches({"f_args", "complex_valued", "theta", "jac"})

\* the keyword arguments of the set calls that are followed for the ranges
RangeBatches == Batches({"theta", "nonlinear_solver", "f_args"})
Dtypes == {"int", "float", "complex"}

\* the keyword arguments of the constructor, of switch_to and of the set calls
\* where several instances are followed
ConstructorBatches == {<<>>, [x \in {"complex_valued"} |-> PyBool(TRUE)]}
SwitchBatches ==
    {kw \in Batches({"f", "theta"}) : "theta" \in DOMAIN kw => kw["theta"] = PyInt(1)}
SwitchSetBatches == {[x \in {"f_args"} |-> PyTuple(1)]}
SwitchTargets == Kinds \cup {"NoSuchSolver"}

(* ---------------- one instance: set, get, solve ----------------------- *)
\* self.f_n, self.f_n_1, self.f_n_2 and self.f_n_3 of AdamsBashforth3 and
\* AdamsBashforth4, each kept as the index n of the point (u[n], t[n]) at which
\* f was evaluated for it; None is kept as -1 (self.f_n does not exist then)
NoHistory == [f_n |-> -1, f_n_1 |-> -1, f_n_2 |-> -1, f_n_3 |-> -1]

\* Times and step sizes of RKFehlberg.advance are fixed-point numbers, a caller's
\* time unit being Resolution of their units; a product is rounded toward zero,
\* so that a step size which is cut again and again becomes 0 as the float of
\* the code does and "dt/1000." is exact. A value of u is kept as the time the
\* embedded pair has reached with it.
Resolution == 1000

\* RKFehlberg.advance is not running: none of its local variables is bound
NoLocals ==
    [min_step |-> 0, max_step |-> 0, h |-> 0, t |-> 0, twork |-> 0, uwork |-> 0,
     u_new |-> 0, passes |-> 0]

\* no solve call is running
Idle ==
    /\ pc = "idle"
    /\ time_points = <<>>
    /\ self_t = <<>>
    /\ self_u = <<>>
    /\ self_n = 0
    /\ calls = <<>>
    /\ raised = ""
    /\ terminated = FALSE
    /\ f_n_1 = 0
    /\ hist = NoHistory
    /\ inner = <<>>
    /\ ar = [k |-> 0, ntpoints |-> 0, unew |-> <<>>, tnew |-> <<>>, bound |-> FALSE]
    /\ rk = NoLocals

\* what the specification records of the last call
Op(op, id, err) ==
    [op |-> op, id |-> id, err |-> err, kw |-> <<>>, badtype |-> FALSE, target |-> "",
     badrange |-> FALSE, endpoint |-> FALSE]

Init ==
    /\ \E kind \in Kinds, f \in {PyFunc("f1"), PyNone} :
          solvers = <<Construct(1, kind, f, <<>>).self>>
    /\ prev = solvers
    /\ last = Op("init", 1, "")
    /\ Idle

\* the wrappers around the Jacobian of instance i
JacWraps(i) ==
    IF "jac" \in DOMAIN solvers[i].attrs THEN Len(solvers[i].attrs["jac"].chain) ELSE 0

Set(i, strict, kw, order) ==
    \E r \in {set(solvers[i], strict, kw, order)} :
        /\ solvers' = [solvers EXCEPT ![i].attrs = r.attrs]
        /\ prev' = solvers
        /\ last' = [Op("set", i, r.err) EXCEPT
                       !.badtype = SuppliesWrongType(solvers[i].kind, kw),
                       !.badrange = SuppliesOutOfRange(solvers[i].kind, kw),
                       !.endpoint = SuppliesEndpoint(solvers[i].kind, kw)]
        /\ UNCHANGED loopvars

Get(i) ==
    /\ solvers' = solvers
    /\ prev' = solvers
    /\ last' = [Op("get", i, "") EXCEPT !.kw = get(solvers[i])]
    /\ UNCHANGED loopvars

\* the names get is called with: parameters legal and illegal for the kinds,
\* attributes that are no parameters, and a name that is nothing at all
GetNames == {"f", "f_args", "theta", "U0", "solve", "nosuch"}

\* get(parameter_name): last.target is the name, last.kw maps it to the value
\* returned (and is empty when get raised)
GetName(i, parameter_name) ==
    /\ \E r \in {get_name(solvers[i], parameter_name)} :
          last' = [Op("get_name", i, r.err) EXCEPT
                      !.target = parameter_name,
                      !.kw = IF r.err = "" THEN [x \in {parameter_name} |-> r.value]
                             ELSE <<>>]
    /\ solvers' = solvers
    /\ prev' = solvers
    /\ UNCHANGED loopvars

SetInitialCondition(i, U0) ==
    /\ solvers' = [solvers EXCEPT ![i].U0 = InitialCondition(U0).U0,
                                  ![i].neq = InitialCondition(U0).neq]
    /\ prev' = solvers
    /\ last' = Op("set_initial_condition", i, "")
    /\ UNCHANGED loopvars

Solve(i, t, dt) ==
    /\ JacWraps(i) < MaxWrap
    /\ \E r \in {solve_config(solvers, i, t, dt)} :
          /\ solvers' = [solvers EXCEPT ![i].attrs = r.attrs]
          /\ prev' = solvers
          /\ last' = Op("solve", i, r.err)
    /\ UNCHANGED loopvars

Next ==
    \/ \E i \in 1..Len(solvers), strict \in BOOLEAN, kw \in SetBatches :
          \E order \in OrdersFor(solvers[i].kind, strict, DOMAIN kw) :
              Set(i, strict, kw, order)
    \/ \E i \in 1..Len(solvers) : Get(i)
    \/ \E i \in 1..Len(solvers), U0 \in InitialConditions : SetInitialCondition(i, U0)
    \/ \E i \in 1..Len(solvers), t \in TimeGrids, dt \in Dtypes : Solve(i, t, dt)

Spec == Init /\ [][Next]_vars

(* ------------- one instance: set, get(None) and get(name) ------------- *)
NextParams ==
    \/ \E i \in 1..Len(solvers), strict \in BOOLEAN, kw \in RangeBatches :
          \E order \in OrdersFor(solvers[i].kind, strict, DOMAIN kw) :
              Set(i, strict, kw, order)
    \/ \E i \in 1..Len(solvers) : Get(i)
    \/ \E i \in 1..Len(solvers), parameter_name \in GetNames : GetName(i, parameter_name)
    \/ \E i \in 1..Len(solvers), U0 \in InitialConditions : SetInitialCondition(i, U0)

SpecParams == Init /\ [][NextParams]_vars

(* ---------------- several instances: switch_to and set ---------------- *)
SwitchTo(i, solver_target, kw) ==
    /\ Len(solvers) < MaxSolvers
    /\ \E r \in {switch_to(solvers, i, Len(solvers) + 1, solver_target, kw)} :
          /\ solvers' = IF r.err = "" THEN Append(solvers, r.self) ELSE solvers
          /\ last' = [Op("switch_to", i, r.err) EXCEPT !.kw = kw, !.target = solver_target]
    /\ prev' = solvers
    /\ UNCHANGED loopvars

SetAfterSwitch(i, kw) ==
    /\ \E order \in OrdersFor(solvers[i].kind, FALSE, DOMAIN kw) :
       \E r \in {set(solvers[i], FALSE, kw, order)} :
          /\ solvers' = [solvers EXCEPT ![i].attrs = r.attrs]
          /\ last' = Op("set", i, r.err)
    /\ prev' = solvers
    /\ UNCHANGED loopvars

InitSwitch ==
    /\ \E kind \in Kinds, f \in {PyFunc("f1"), PyNone}, kw \in ConstructorBatches,
          U0 \in {Unset, PyInt(1)} :
          solvers = <<[Construct(1, kind, f, kw).self EXCEPT
                          !.U0 = IF U0 = Unset THEN Unset ELSE InitialCondition(U0).U0,
                          !.neq = IF U0 = Unset THEN 0 ELSE InitialCondition(U0).neq]>>
    /\ prev = solvers
    /\ last = Op("init", 1, "")
    /\ Idle

NextSwitch ==
    \/ \E i \in 1..Len(solvers), kw \in SwitchSetBatches : SetAfterSwitch(i, kw)
    \/ \E i \in 1..Len(solvers), target \in SwitchTargets, kw \in SwitchBatches :
          SwitchTo(i, target, kw)

SpecSwitch == InitSwitch /\ [][NextSwitch]_vars

(* ----------------------- the time loop of solve ------------------------ *)
MaxLoopPoints == 3 \* length of the time_points sequence of a stepped solve call
MaxNtpoints == 4   \* points of a refined sub-grid of AdaptiveResidual.solve
MaxMultistepPoints == 5 \* length of the time_points sequence given to a multistep kind

\* the time_points sequences of a stepped solve call: sorted or not, with or
\* without repeated points
LoopTimes == {0, 1, 2}
LoopGrids == UNION {[1..len -> LoopTimes] : len \in 0..MaxLoopPoints}

LoopKinds ==
    {"Euler", "AdamsBashforth2", "AdaptiveResidual", "LeapfrogFiltered", "AdamsBashforth3",
     "AdamsBashforth4"}

\* the longer time_points sequences given to the multistep kinds: of step 1
\* from time 0, or so but for one point that comes 1 later
MultistepGrids ==
    {[k \in 1..len |-> (k - 1) + (IF k = late THEN 1 ELSE 0)] :
        len \in (MaxLoopPoints + 1)..MaxMultistepPoints, late \in 0..MaxMultistepPoints}
LoopInitialConditions == {PyInt(1)}

\* the user's right-hand side, by name, at u = u2/2 and t = t2/2:
\* f1(u, t) = 2*u + 2*t
UserF(fn, u2, t2) == IF fn = "f1" THEN u2 + t2 ELSE 0

\* the value of self.f(u2/2, t2/2) of instance i
F(S, i, u2, t2) == UserF(Rhs(S, i).fn, u2, t2)

\* Euler.advance: u and t are self.u and self.t (index k of the code is k + 1 here)
Euler_advance(S, i, u, t, n) ==
    LET dt == t[n + 2] - t[n + 1]
    IN  u[n + 1] + dt * F(S, i, 2 * u[n + 1], 2 * t[n + 1])

\* RK2.advance
RK2_advance(S, i, u, t, n) ==
    LET dt == t[n + 2] - t[n + 1]
        K1 == dt * F(S, i, 2 * u[n + 1], 2 * t[n + 1])
        K2 == dt * F(S, i, 2 * u[n + 1] + K1, 2 * t[n + 1] + dt)
    IN  u[n + 1] + K2

\* an array one entry longer than np.zeros(N)
Zeros_long(N) == [k \in 1..(N + 1) |-> 0]

\* np.zeros(N) as a sequence
Zeros(N) == [k \in 1..N |-> 0]

\* self.starter.solve(tp) of AdamsBashforth2.advance after its
\* set_internal_parameters returned sip, the starter being S[2] and u0 its
\* initial condition: the error raised, the instances afterwards, u_starter[-1]
\* nested solve calls after which Python's recursion limit ends the call chain
RecursionLimit == 3

\* solve of the instance self at nesting depth, as far as its starter goes: a
\* multistep kind makes self.starter = self.switch_to(self.start_method) in
\* set_internal_parameters and its advance for n = 0 calls the starter's solve,
\* which does the same when the starter is of a multistep kind. The error raised.
RECURSIVE NestedStarterSolve(_, _)
NestedStarterSolve(self, depth) ==
    IF self.kind \notin MultistepKinds THEN ""
    ELSE IF depth >= RecursionLimit THEN "RuntimeError"
    ELSE CHOOSE r \in
            {IF starter.err # "" THEN starter.err
             ELSE NestedStarterSolve(starter.self, depth + 1) :
                starter \in {switch_to(<<self>>, 1, depth + 2,
                                       self.attrs["start_method"].str, <<>>)}} : TRUE

StarterSolve_loop(S, u0, tp, sip) ==
    IF sip.err # "" THEN [err |-> sip.err, S |-> S, unew |-> 0]
    ELSE IF validate_data(S[2].kind, sip.attrs, tp) # ""
    THEN [err |-> validate_data(S[2].kind, sip.attrs, tp), S |-> S, unew |-> 0]
    ELSE IF advance_error(sip.attrs) # ""
    THEN [err |-> advance_error(sip.attrs), S |-> S, unew |-> 0]
    ELSE IF Rhs(S, 2).err # "" THEN [err |-> Rhs(S, 2).err, S |-> S, unew |-> 0]
    ELSE IF S[2].kind \in MultistepKinds
    THEN [err |-> NestedStarterSolve(S[2], 1), S |-> S, unew |-> 0]
    ELSE [err |-> "", S |-> S,
          unew |-> IF S[2].kind = "RK2" THEN RK2_advance(S, 2, <<u0, 0>>, tp, 0)
                   ELSE Euler_advance(S, 2, <<u0, 0>>, tp, 0)]

StarterSolve_sip(S, u0, tp, sip) ==
    StarterSolve_loop([S EXCEPT ![2].attrs = sip.attrs], u0, tp, sip)

\* "self.starter.set_initial_condition(u[n])" and then the solve
StarterSolve_U0(S, u0, tp) ==
    StarterSolve_sip(S, u0, tp, set_internal_parameters(S, 2, tp, "float"))

\* StarterSolve with the starter being the very instance that owns it
StarterSolve_on_owner(S, u0, tp) ==
    StarterSolve_U0([S EXCEPT ![1].U0 = PyFloat(u0, 1), ![1].neq = 1,
                              ![2].U0 = PyFloat(u0, 1), ![2].neq = 1], u0, tp)

StarterSolve(S, u0, tp) ==
    StarterSolve_U0([S EXCEPT ![2].U0 = PyFloat(u0, 1), ![2].neq = 1], u0, tp)

\* the branch n = 0 of AdamsBashforth2.advance, st being what the starter did
AdamsBashforth2_start(S, u, t, fn1, st) ==
    [err |-> st.err, S |-> st.S, unew |-> st.unew, u |-> u, by |-> "starter",
     f_n_1 |-> IF st.err = "" THEN F(S, 1, 2 * u[1], 2 * t[1]) ELSE fn1]

\* the branch n >= 1 of AdamsBashforth2.advance, f_n being f(u[n], t[n])
AdamsBashforth2_step(S, u, t, n, fn1, f_n) ==
    [err |-> "", S |-> S, u |-> u, by |-> "recurrence",
     unew |-> u[n + 1] + ((t[n + 2] - t[n + 1]) * (3 * f_n - fn1)) \div 2,
     f_n_1 |-> f_n]

\* AdamsBashforth2.advance: the error raised, the instances afterwards, the new
\* value and self.f_n_1 afterwards
AdamsBashforth2_advance(S, u, t, n, fn1) ==
    IF n >= 1
    THEN AdamsBashforth2_step(S, u, t, n, fn1, F(S, 1, 2 * u[n + 1], 2 * t[n + 1]))
    ELSE AdamsBashforth2_start(S, u, t, fn1,
                               StarterSolve(S, u[n + 1], <<t[n + 1], t[n + 2]>>))

\* The entries of self.u of a LeapfrogFiltered are kept in units of
\* 1/LeapfrogUnits, so that the products with gamma = 0.6 are exact; those of
\* the other kinds are integers.
LeapfrogUnits == 5 ^ MaxLoopPoints
Units(kind) == IF kind = "LeapfrogFiltered" THEN LeapfrogUnits ELSE 1

\* a filter that rewrites the entry before u[n]
LeapfrogFiltered_filter_before(u, n, unew) ==
    [u EXCEPT ![n] = @ + (3 * (u[n] - 2 * u[n + 1] + unew)) \div 5]

\* "u[n] = u[n] + gamma*(u[n-1] - 2*u[n] + unew)" with gamma = 0.6
LeapfrogFiltered_filter(u, n, unew) ==
    [u EXCEPT ![n + 1] = @ + (3 * (u[n] - 2 * u[n + 1] + unew)) \div 5]

\* the branch n >= 1 of LeapfrogFiltered.advance, unew being its new value
LeapfrogFiltered_step(S, u, n, fn1, unew) ==
    [err |-> "", S |-> S, unew |-> unew, f_n_1 |-> fn1, by |-> "onestep",
     u |-> LeapfrogFiltered_filter(u, n, unew)]

\* LeapfrogFiltered.advance: the error raised, the instances, the new value,
\* self.f_n_1 and self.u afterwards
LeapfrogFiltered_advance(S, u, t, n, fn1) ==
    IF n >= 1
    THEN LeapfrogFiltered_step(S, u, n, fn1,
             u[n] + (t[n + 2] - t[n])
                      * F(S, 1, 2 * u[n + 1], 2 * t[n + 1] * LeapfrogUnits))
    ELSE [err |-> "", S |-> S, f_n_1 |-> fn1, u |-> u, by |-> "onestep",
          unew |-> u[1] + (t[2] - t[1]) * F(S, 1, 2 * u[1], 2 * t[1] * LeapfrogUnits)]

\* The value of a recurrence step of AdamsBashforth3 or AdamsBashforth4 is kept
\* by what it is computed from: u[n], f(u[n], t[n]) and the f values read from
\* self.f_n_1, self.f_n_2, ... (lags, each the index its f was evaluated at).
\* A slot that is None makes the arithmetic raise TypeError, self.f_n being
\* assigned by then; h0 are the slots before the step and h those after it.
Multistep_recurrence(S, u, n, fn1, lags, h0, h) ==
    IF \E i \in DOMAIN lags : lags[i] = -1
    THEN [err |-> "TypeError", S |-> S, unew |-> 0, u |-> u, f_n_1 |-> fn1,
          by |-> "recurrence", hist |-> [h0 EXCEPT !.f_n = n]]
    ELSE [err |-> "", S |-> S, u |-> u, f_n_1 |-> fn1, by |-> "recurrence", hist |-> h,
          unew |-> [n |-> n, f_n |-> n, lags |-> lags]]

\* the starter branch of AdamsBashforth3.advance and AdamsBashforth4.advance,
\* st being what the starter did and h the slots after the branch
Multistep_start(S, u, fn1, st, h) ==
    [err |-> st.err, S |-> st.S, unew |-> st.unew, u |-> u, f_n_1 |-> fn1,
     by |-> "starter", hist |-> h]

\* a starter branch that takes one more step than it should (n >= 3)
AdamsBashforth3_start_late(S, u, t, n, fn1, h) ==
    IF n >= 3
    THEN Multistep_recurrence(S, u, n, fn1, <<h.f_n_1, h.f_n_2>>, h,
             [h EXCEPT !.f_n_1 = n, !.f_n_2 = h.f_n_1, !.f_n = h.f_n_2])
    ELSE Multistep_start(S, u, fn1, StarterSolve(S, u[n + 1], <<t[n + 1], t[n + 2]>>),
             IF n = 0 THEN [h EXCEPT !.f_n_2 = 0]
             ELSE IF n = 1 THEN [h EXCEPT !.f_n_1 = 1] ELSE h)

\* AdamsBashforth3.advance
AdamsBashforth3_advance(S, u, t, n, fn1, h) ==
    IF n >= 2
    THEN Multistep_recurrence(S, u, n, fn1, <<h.f_n_1, h.f_n_2>>, h,
             [h EXCEPT !.f_n_1 = n, !.f_n_2 = h.f_n_1, !.f_n = h.f_n_2])
    ELSE Multistep_start(S, u, fn1, StarterSolve(S, u[n + 1], <<t[n + 1], t[n + 2]>>),
             IF n = 0 THEN [h EXCEPT !.f_n_2 = 0] ELSE [h EXCEPT !.f_n_1 = 1])

\* AdamsBashforth4.advance
AdamsBashforth4_advance(S, u, t, n, fn1, h) ==
    IF n >= 3
    THEN Multistep_recurrence(S, u, n, fn1, <<h.f_n_1, h.f_n_2, h.f_n_3>>, h,
             [h EXCEPT !.f_n = n, !.f_n_1 = n, !.f_n_2 = h.f_n_1, !.f_n_3 = h.f_n_2])
    ELSE Multistep_start(S, u, fn1, StarterSolve(S, u[n + 1], <<t[n + 1], t[n + 2]>>),
             IF n = 0 THEN [h EXCEPT !.f_n_3 = 0]
             ELSE IF n = 1 THEN [h EXCEPT !.f_n_2 = 1] ELSE [h EXCEPT !.f_n_1 = 2])

(* ----------------------- SolverImplicit.advance ------------------------ *)
\* The floats of an implicit advance are kept as exact fractions num/den in
\* lowest terms with den > 0; den = 0 stands for the values that are not
\* finite: inf (num = 1), -inf (num = -1) and nan (num = 0).
RECURSIVE Gcd(_, _)
Gcd(a, b) == IF b = 0 THEN a ELSE Gcd(b, a % b)

Rat(n, d) ==
    IF d = 0
    THEN [num |-> IF n > 0 THEN 1 ELSE IF n < 0 THEN -1 ELSE 0, den |-> 0]
    ELSE [num |-> (IF d < 0 THEN -n ELSE n) \div Gcd(Abs(n), Abs(d)),
          den |-> Abs(d) \div Gcd(Abs(n), Abs(d))]

\* a + b, a * b and a / b of two floats (numpy: a division by zero gives inf or
\* nan and does not raise)
Float(op, a, b) ==
    CASE op = "+" ->
            IF a.den # 0 /\ b.den # 0
            THEN Rat(a.num * b.den + b.num * a.den, a.den * b.den)
            ELSE IF a.den = 0 /\ b.den = 0
            THEN (IF a.num = b.num THEN a ELSE Rat(0, 0))
            ELSE IF a.den = 0 THEN a ELSE b
      [] op = "*" -> Rat(a.num * b.num, a.den * b.den)
      [] op = "/" ->
            IF b.den # 0 /\ b.num = 0 THEN Rat(a.num, 0)
            ELSE IF b.den = 0
            THEN (IF a.den = 0 \/ b.num = 0 THEN Rat(0, 0) ELSE Rat(0, 1))
            ELSE IF a.den = 0 THEN Rat(a.num * b.num, 0)
            ELSE Rat(a.num * b.den, a.den * b.num)

\* "error > self.eps_iter": a comparison with nan is False
Exceeds(a, b) ==
    IF (a.den = 0 /\ a.num = 0) \/ (b.den = 0 /\ b.num = 0) THEN FALSE
    ELSE IF a.den = 0 THEN a.num = 1 /\ b # a
    ELSE IF b.den = 0 THEN b.num = -1
    ELSE a.num * b.den > b.num * a.den

\* self.f(u, t) for fractions u and t: f1(u, t) = 2*u + 2*t
Fq(S, i, u, t) ==
    IF Rhs(S, i).fn = "f1"
    THEN Float("*", Rat(2, 1), Float("+", u, t))
    ELSE Rat(0, 1)

\* Picard_update(ukp1) of the kind of S[1], u, t and n being self.u, self.t and
\* self.n (index k of the code is k + 1 here)
Picard_update(S, u, t, n, ukp1) ==
    CASE S[1].kind = "ThetaRule" ->
            CHOOSE r \in
                {Float("+", u[n + 1], Float("+", a, b)) :
                    a \in {Float("*", Float("*", Rat(S[1].attrs["theta"].num,
                                                     S[1].attrs["theta"].den),
                                             Rat(t[n + 2] - t[n + 1], 1)),
                                  Fq(S, 1, ukp1, Rat(t[n + 2], 1)))},
                    b \in {Float("*", Float("*", Rat(S[1].attrs["theta"].den -
                                                         S[1].attrs["theta"].num,
                                                     S[1].attrs["theta"].den),
                                             Rat(t[n + 2] - t[n + 1], 1)),
                                  Fq(S, 1, u[n + 1], Rat(t[n + 1], 1)))}} : TRUE
      [] S[1].kind = "Backward2Step" /\ n # 0 ->
            CHOOSE r \in
                {Float("+", Float("+", Float("*", Rat(4, 3), u[n + 1]),
                                  Float("*", Rat(-1, 3), u[n])),
                       Float("*", Rat(t[n + 2] - t[n], 3), a)) :
                    a \in {Fq(S, 1, ukp1, Rat(t[n + 2], 1))}} : TRUE
      [] S[1].kind = "MidpointImplicit" ->
            CHOOSE r \in
                {Float("+", u[n + 1], Float("*", Rat(t[n + 2] - t[n + 1], 1), a)) :
                    a \in {Fq(S, 1, Float("*", Rat(1, 2), Float("+", ukp1, u[n + 1])),
                              Rat(t[n + 1] + t[n + 2], 2))}} : TRUE
      [] OTHER ->
            \* BackwardEuler, and Backward2Step at n = 0
            CHOOSE r \in
                {Float("+", u[n + 1], Float("*", Rat(t[n + 2] - t[n + 1], 1), a)) :
                    a \in {Fq(S, 1, ukp1, Rat(t[n + 2], 1))}} : TRUE

\* self.jac(u, t): the user's jac1 is the derivative 2 of f1; without a user's
\* Jacobian it is approximate_Jacobian, whose len(u0) raises TypeError for the
\* scalar u0 of a scalar problem
jac(S) ==
    IF S[1].attrs["jac"].str = "approximate_Jacobian"
    THEN [err |-> "TypeError", val |-> Rat(0, 1)]
    ELSE [err |-> "", val |-> Rat(2, 1)]

\* F of Newton_system(ukp1) of the kind of S[1]. BackwardEuler, Backward2Step
\* and ThetaRule write "ukp1 - (...)" around the expression their
\* Picard_update returns; MidpointImplicit writes
\* "ukp1 - u[n] + dt*f((ukp1 + u[n])/2., t[n] + dt/2.)"
Newton_system_F(S, u, t, n, ukp1) ==
    IF S[1].kind = "MidpointImplicit"
    THEN CHOOSE r \in
            {Float("+", Float("+", ukp1, Float("*", Rat(-1, 1), u[n + 1])),
                   Float("*", Rat(t[n + 2] - t[n + 1], 1), a)) :
                a \in {Fq(S, 1, Float("*", Rat(1, 2), Float("+", ukp1, u[n + 1])),
                          Rat(t[n + 1] + t[n + 2], 2))}} : TRUE
    ELSE Float("+", ukp1, Float("*", Rat(-1, 1), Picard_update(S, u, t, n, ukp1)))

\* the factor c of J = np.eye(self.neq) - c*self.jac(ukp1, t[n+1])
Newton_system_factor(S, t, n) ==
    CASE S[1].kind = "ThetaRule" ->
            Rat(S[1].attrs["theta"].num * (t[n + 2] - t[n + 1]), S[1].attrs["theta"].den)
      [] S[1].kind = "Backward2Step" /\ n # 0 -> Rat(t[n + 2] - t[n], 3)
      [] OTHER -> Rat(t[n + 2] - t[n + 1], 1)

\* Newton_system(ukp1) of the kind of S[1]: the error raised, F and J
Newton_system(S, u, t, n, ukp1) ==
    IF jac(S).err # ""
    THEN [err |-> jac(S).err, F |-> Rat(0, 1), J |-> Rat(0, 1)]
    ELSE [err |-> "",
          F |-> Newton_system_F(S, u, t, n, ukp1),
          J |-> Float("+", Rat(1, 1),
                      Float("*", Float("*", Rat(-1, 1), Newton_system_factor(S, t, n)),
                            jac(S).val))]

\* the branch of the while body that computes unew from the iterate u_new: the
\* error raised, unew, which stays unbound ("unew |-> Unset") when
\* nonlinear_solver is none of the three names, and the F of Newton_system
SolverImplicit_unew(S, u, t, n, u_new) ==
    CASE S[1].attrs["nonlinear_solver"].str = "Picard" ->
            [err |-> "", unew |-> Picard_update(S, u, t, n, u_new), F |-> Unset]
      [] S[1].attrs["nonlinear_solver"].str = "Newton" ->
            CHOOSE r \in
                {IF ns.err # "" THEN [err |-> ns.err, unew |-> Unset, F |-> Unset]
                 ELSE [err |-> "", F |-> ns.F,
                       unew |-> Float("+", u_new,
                                      Float("*", Rat(-1, 1), Float("/", ns.F, ns.J)))] :
                    ns \in {Newton_system(S, u, t, n, u_new)}} : TRUE
      [] S[1].attrs["nonlinear_solver"].str = "FixedPoint" ->
            [err |-> "", F |-> Unset,
             unew |-> Float("+", u[n + 1], Float("*", Rat(t[n + 2] - t[n + 1], 1),
                                                 Fq(S, 1, u_new, Rat(t[n + 1], 1))))]
      [] OTHER -> [err |-> "", unew |-> Unset, F |-> Unset]

\* "r = self.relaxation; u_new = r*unew + (1-r)*un"
SolverImplicit_relax(S, u_n, u_new, unew) ==
    Float("+", Float("*", Rat(S[1].attrs["relaxation"].num, S[1].attrs["relaxation"].den),
                     unew),
          Float("*", Rat(S[1].attrs["relaxation"].den - S[1].attrs["relaxation"].num,
                         S[1].attrs["relaxation"].den),
                u_n))

\* one pass of the while body from the iterate u_new: the error raised, the
\* iterate it started from (old), F of Newton_system, unew, error and the next
\* iterate
SolverImplicit_pass(S, u, t, n, u_new) ==
    CHOOSE r \in
        {IF x.err # ""
         THEN [err |-> x.err, old |-> u_new, unew |-> Unset, error |-> Unset,
               next |-> Unset, F |-> Unset]
         ELSE IF x.unew = Unset
         THEN [err |-> "UnboundLocalError", old |-> u_new, unew |-> Unset,
               error |-> Unset, next |-> Unset, F |-> Unset]
         ELSE CHOOSE q \in
                 {[err |-> "", old |-> u_new, unew |-> x.unew, F |-> x.F,
                   error |-> [d EXCEPT !.num = Abs(d.num)],
                   next |-> SolverImplicit_relax(S, u[n + 1], u_new, x.unew)] :
                     d \in {Float("+", x.unew, Float("*", Rat(-1, 1), u_new))}} : TRUE :
            x \in {SolverImplicit_unew(S, u, t, n, u_new)}} : TRUE

\* "while i <= self.max_iter and error > self.eps_iter: ...; i += 1", log being
\* the passes made so far: the error raised, the iterate returned and the passes
RECURSIVE SolverImplicit_while(_, _, _, _, _, _, _, _)
SolverImplicit_while(S, u, t, n, i, error, u_new, log) ==
    IF ~(/\ i <= S[1].attrs["max_iter"].num
         /\ Exceeds(error, Rat(S[1].attrs["eps_iter"].num, S[1].attrs["eps_iter"].den)))
    THEN [err |-> "", unew |-> u_new, inner |-> log]
    ELSE CHOOSE r \in
            {IF p.err # ""
             THEN [err |-> p.err, unew |-> 0, inner |-> Append(log, p)]
             ELSE SolverImplicit_while(S, u, t, n, i + 1, p.error, p.next,
                                       Append(log, p)) :
                p \in {SolverImplicit_pass(S, u, t, n, u_new)}} : TRUE

\* SolverImplicit.advance: "i, error = 1, 1E+30", the forward Euler step as the
\* first iterate, and the while loop
SolverImplicit_advance(S, u, t, n) ==
    CHOOSE r \in
        {SolverImplicit_while(S, u, t, n, 1, Rat(1, 0), guess, <<>>) :
            guess \in {Float("+", u[n + 1],
                             Float("*", Rat(t[n + 2] - t[n + 1], 1),
                                   Fq(S, 1, u[n + 1], Rat(t[n + 1], 1))))}} : TRUE

\* self.advance() of the instance S[1] that solves, h being the slots of
\* AdamsBashforth3 and AdamsBashforth4, which the other kinds do not have
advance(S, u, t, n, fn1, h) ==
    IF advance_error(S[1].attrs) # ""
    THEN [err |-> advance_error(S[1].attrs), S |-> S, unew |-> 0, f_n_1 |-> fn1, u |-> u,
          by |-> "", hist |-> h, inner |-> <<>>]
    ELSE IF Rhs(S, 1).err # ""
    THEN [err |-> Rhs(S, 1).err, S |-> S, unew |-> 0, f_n_1 |-> fn1, u |-> u,
          by |-> "", hist |-> h, inner |-> <<>>]
    ELSE IF S[1].kind \in ImplicitKinds
    THEN SolverImplicit_advance(S, u, t, n) @@
         [S |-> S, f_n_1 |-> fn1, u |-> u, by |-> "implicit", hist |-> h]
    ELSE IF S[1].kind = "AdamsBashforth2"
    THEN AdamsBashforth2_advance(S, u, t, n, fn1) @@ [hist |-> h, inner |-> <<>>]
    ELSE IF S[1].kind = "AdamsBashforth3"
    THEN AdamsBashforth3_advance(S, u, t, n, fn1, h) @@ [inner |-> <<>>]
    ELSE IF S[1].kind = "AdamsBashforth4"
    THEN AdamsBashforth4_advance(S, u, t, n, fn1, h) @@ [inner |-> <<>>]
    ELSE IF S[1].kind = "LeapfrogFiltered"
    THEN LeapfrogFiltered_advance(S, u, t, n, fn1) @@ [hist |-> h, inner |-> <<>>]
    ELSE [err |-> "", S |-> S, unew |-> Euler_advance(S, 1, u, t, n), f_n_1 |-> fn1,
          u |-> u, by |-> "onestep", hist |-> h, inner |-> <<>>]

\* a truncation one entry short of "[:n+2]"
Truncate_short(s, n) == SubSeq(s, 1, n + 1)

\* "self.u[:n+2]", "self.t[:n+2]"
Truncate(s, n) == SubSeq(s, 1, n + 2)

\* a solve call can start
CanSolve == pc = "idle"

\* the solve call has returned or raised: the caller has the result and the
\* instance can be used again
Return ==
    /\ pc \in {"done", "raised"}
    /\ pc' = "idle"
    /\ time_points' = <<>>
    /\ self_t' = <<>>
    /\ self_u' = <<>>
    /\ self_n' = 0
    /\ calls' = <<>>
    /\ raised' = ""
    /\ terminated' = FALSE
    /\ f_n_1' = 0
    /\ hist' = NoHistory
    /\ inner' = <<>>
    /\ ar' = [k |-> 0, ntpoints |-> 0, unew |-> <<>>, tnew |-> <<>>, bound |-> FALSE]
    /\ rk' = NoLocals
    /\ UNCHANGED <<solvers, prev, last>>

\* set_initial_condition between two solve calls
LoopSetInitialCondition(U0) ==
    /\ CanSolve
    /\ solvers' = [solvers EXCEPT ![1].U0 = InitialCondition(U0).U0,
                                  ![1].neq = InitialCondition(U0).neq]
    /\ UNCHANGED <<prev, last>>
    /\ UNCHANGED loopvars

\* Solver.solve up to the time loop: self.t, set_internal_parameters, validate_data
SolveBegin(tp) ==
    /\ CanSolve
    /\ solvers[1].kind \in (LoopKinds \ {"AdaptiveResidual"}) \cup ImplicitKinds
                                \cup {"RKFehlberg"}
    /\ Len(tp) > MaxLoopPoints => solvers[1].kind \in MultistepKinds
    /\ JacWraps(1) < MaxWrap
    /\ \E S \in {<<solvers[1]>>} :
       \E sip \in {set_internal_parameters(S, 1, tp, "float")} :
       \E v \in {IF sip.err # "" THEN sip.err ELSE validate_data(S[1].kind, sip.attrs, tp)} :
       \E starter \in {IF S[1].kind \in MultistepKinds
                       THEN AdamsBashforth2_starter(S, 1)
                       ELSE [err |-> "none", self |-> S[1]]} :
          /\ solvers' = IF starter.err = ""
                        THEN <<[S[1] EXCEPT !.attrs = sip.attrs], starter.self>>
                        ELSE <<[S[1] EXCEPT !.attrs = sip.attrs]>> \o Tail(solvers)
          /\ self_u' = IF sip.err # "" THEN self_u
                       ELSE IF S[1].kind \in ImplicitKinds
                       THEN [k \in 1..Len(tp) |->
                               IF k = 1 THEN Rat(S[1].U0.num, S[1].U0.den) ELSE Rat(0, 1)]
                       ELSE IF S[1].kind = "RKFehlberg"
                       THEN <<tp[1] * Resolution>> \o Zeros(Len(tp) - 1)
                       ELSE <<S[1].U0.num * Units(S[1].kind)>> \o Zeros(Len(tp) - 1)
          /\ raised' = v
          /\ pc' = IF v # "" THEN "raised" ELSE IF Len(tp) = 1 THEN "done" ELSE "advance"
    /\ time_points' = tp
    /\ self_t' = tp
    /\ self_n' = 0
    /\ calls' = <<>>
    /\ terminated' = FALSE
    /\ f_n_1' = 0
    /\ hist' = NoHistory
    /\ inner' = <<>>
    /\ UNCHANGED <<prev, last, ar, rk>>

\* "self.n = n; self.u[n+1] = self.advance()"
Advance ==
    /\ pc = "advance"
    /\ solvers[1].kind # "RKFehlberg"
    /\ \E a \in {advance(solvers, self_u, self_t, self_n, f_n_1, hist)} :
          /\ solvers' = a.S
          /\ f_n_1' = a.f_n_1
          /\ hist' = a.hist
          /\ inner' = a.inner
          /\ self_u' = IF a.err = "" THEN [a.u EXCEPT ![self_n + 2] = a.unew]
                       ELSE self_u
          /\ raised' = a.err
          /\ pc' = IF a.err = "" THEN "terminate" ELSE "raised"
          /\ calls' = Append(calls, [op |-> "advance", n |-> self_n, ret |-> FALSE,
                                     val |-> a.unew, by |-> a.by])
    /\ UNCHANGED <<prev, last, time_points, self_t, self_n, terminated, ar, rk>>

\* "if terminate(self.u, self.t, n+1): ... break", ret being what the predicate
\* returns, and the step of the for loop
Terminate(ret) ==
    /\ pc = "terminate"
    /\ calls' = Append(calls, [op |-> "terminate", n |-> self_n + 1, ret |-> ret,
                               val |-> 0, by |-> ""])
    /\ terminated' = ret
    /\ self_u' = IF ret THEN Truncate(self_u, self_n) ELSE self_u
    /\ self_t' = IF ret THEN Truncate(self_t, self_n) ELSE self_t
    /\ pc' = IF ret \/ self_n + 1 >= Len(self_t) - 1 THEN "done" ELSE "advance"
    /\ self_n' = IF ret \/ self_n + 1 >= Len(self_t) - 1 THEN self_n ELSE self_n + 1
    /\ UNCHANGED <<solvers, prev, last, time_points, raised, f_n_1, hist, inner, ar, rk>>

(* -------------------------- RKFehlberg.advance -------------------------- *)
\* the float x in fixed-point units
Fixed(x) ==
    IF x.num >= 0 THEN (x.num * Resolution) \div x.den
    ELSE -(((-x.num) * Resolution) \div x.den)

\* "def middle(x, y=.1, z=4.): return sorted([x, y, z])[1]"
middle(x, y, z) ==
    CHOOSE m \in {x, y, z} :
        /\ Cardinality({k \in 1..3 : <<x, y, z>>[k] <= m}) >= 2
        /\ Cardinality({k \in 1..3 : <<x, y, z>>[k] >= m}) >= 2

\* the factors s that "middle(s)" leaves for the step size: the one of an error
\* far above the tolerance and the one of an error far below it
StepFactors == {[num |-> 1, den |-> 10], [num |-> 4, den |-> 1]}

\* "getattr(self, name, default)" in fixed-point units
getattr_step(S, name, default) ==
    IF name \in DOMAIN S[1].attrs THEN Fixed(S[1].attrs[name]) ELSE default

\* RKFehlberg.advance up to its while loop: dt, min_step, max_step, h, uwork,
\* twork, u and t
RKFehlberg_advance_begin ==
    /\ pc = "advance"
    /\ solvers[1].kind = "RKFehlberg"
    /\ \E dt \in {(self_t[self_n + 2] - self_t[self_n + 1]) * Resolution} :
          rk' = [min_step |-> getattr_step(solvers, "min_step", dt \div 1000),
                 max_step |-> getattr_step(solvers, "max_step", dt),
                 h |-> getattr_step(solvers, "first_step", dt),
                 t |-> self_t[self_n + 1] * Resolution,
                 twork |-> self_t[self_n + 1] * Resolution,
                 uwork |-> self_u[self_n + 1],
                 u_new |-> 0, passes |-> 0]
    /\ pc' = "substep"
    /\ UNCHANGED <<solvers, prev, last, time_points, self_t, self_u, self_n, calls, raised,
                   terminated, f_n_1, hist, inner, ar>>

\* "while abs(t - t_n) < abs(t_next - t_n)"
RKFehlberg_advance_while ==
    Abs(rk.t - self_t[self_n + 1] * Resolution) <
        Abs(self_t[self_n + 2] * Resolution - self_t[self_n + 1] * Resolution)

\* one pass of the while loop; passes is 0 before the first pass and then 1 or
\* 2 as the number of passes made is odd or even. s is the factor that middle(s) returns and close
\* is "rms_norm <= 1.": the error is 0 when h is 0 (rms_norm is 0, or nan when
\* the tolerance is 0 too, and then s is 0.1), and otherwise rms_norm <= 1
\* goes with s = (1/(2*rms_norm))**0.25 above 0.84.
RKFehlberg_advance_pass(s, close) ==
    /\ pc = "substep"
    /\ RKFehlberg_advance_while
    /\ IF rk.h = 0 THEN close \/ s = [num |-> 1, den |-> 10]
       ELSE close <=> (s.num >= s.den)
    /\ \E accept \in {close \/ rk.h <= rk.min_step} :
       \E tw \in {IF accept THEN rk.twork + rk.h ELSE rk.twork} :
       \E hs \in {Fixed([num |-> rk.h * s.num, den |-> s.den * Resolution])} :
          rk' = [rk EXCEPT !.t = rk.twork,
                           !.u_new = rk.twork + rk.h,
                           !.twork = tw,
                           !.uwork = IF accept THEN rk.twork + rk.h ELSE rk.uwork,
                           !.h = Min({middle(hs, rk.min_step, rk.max_step),
                                      self_t[self_n + 2] * Resolution - tw}),
                           !.passes = IF rk.passes = 1 THEN 2 ELSE 1]
    /\ UNCHANGED <<solvers, prev, last, pc, time_points, self_t, self_u, self_n, calls,
                   raised, terminated, f_n_1, hist, inner, ar>>

\* "return u_new" after the while loop, and "self.u[n+1] = self.advance()"
RKFehlberg_advance_return ==
    /\ pc = "substep"
    /\ ~RKFehlberg_advance_while
    /\ self_u' = [self_u EXCEPT ![self_n + 2] = rk.u_new]
    /\ calls' = Append(calls, [op |-> "advance", n |-> self_n, ret |-> FALSE,
                               val |-> rk.u_new, by |-> "onestep"])
    /\ pc' = "terminate"
    /\ UNCHANGED <<solvers, prev, last, time_points, self_t, self_n, raised, terminated,
                   f_n_1, hist, inner, ar, rk>>

(* ----------------------- AdaptiveResidual.solve ------------------------ *)
\* "self.solver = eval(self.solver)(f, **kwargs)" at the end of
\* AdaptiveResidual.__init__, self being the instance id made by
\* Adaptive.__init__: the two instances
AdaptiveResidual_solver(id, f, kw, self) ==
    <<[self EXCEPT !.attrs = Assign(@, [x \in {"solver"} |->
                                 Val("instance", id + 1, 1, self.attrs["solver"].str)])],
      Construct(id + 1, self.attrs["solver"].str, f,
                Restrict(kw, DOMAIN kw \ {"solver"})).self>>

\* AdaptiveResidual.__init__ constructing instance id and, as self.solver, the
\* instance id + 1 of the kind named by the solver parameter
AdaptiveResidual_init(id, f, kw) ==
    AdaptiveResidual_solver(id, f, kw, Construct(id, "AdaptiveResidual", f, kw).self)

\* the values of self.u and self.t in AdaptiveResidual.solve are kept by where
\* they come from: point j of the sub-grid of ntpoints points that refines the
\* caller's interval k (k = 0: the initial condition at the caller's first point)
Pt(k, ntpoints, j) == [k |-> k, ntpoints |-> ntpoints, j |-> j]

Minimum(s) == CHOOSE x \in {s[k] : k \in DOMAIN s} : \A k \in DOMAIN s : x <= s[k]
Maximum(s) == CHOOSE x \in {s[k] : k \in DOMAIN s} : \A k \in DOMAIN s : x >= s[k]

\* "if not hasattr(self, name): self.set(name=value)"
SetIfAbsent(attrs, name, value) ==
    IF name \in DOMAIN attrs THEN attrs ELSE Assign(attrs, [x \in {name} |-> value])

\* "time_steps = self.t[1:] - self.t[:-1]"
TimeSteps(tp) == [k \in 1..(Len(tp) - 1) |-> tp[k + 1] - tp[k]]

\* Adaptive.set_internal_parameters on S[1] with self.t = tp, a1, a2 and a3
\* being the attributes after first_step, min_step and max_step are set;
\* isfloat: tp is an array of floats (of integers otherwise). The error raised
\* and the attributes afterwards.
Adaptive_set_internal_parameters_steps(S, tp, isfloat, a1, a2, a3) ==
    IF "first_step" \notin DOMAIN S[1].attrs /\ Len(tp) < 2
    THEN [err |-> "IndexError", attrs |-> S[1].attrs]
    ELSE IF "first_step" \notin DOMAIN S[1].attrs /\ ~isfloat
    THEN [err |-> "TypeError", attrs |-> S[1].attrs]
    ELSE IF "min_step" \notin DOMAIN S[1].attrs /\ Len(tp) < 2
    THEN [err |-> "ValueError", attrs |-> a1]
    ELSE IF "max_step" \notin DOMAIN S[1].attrs /\ Len(tp) < 2
    THEN [err |-> "ValueError", attrs |-> a2]
    ELSE IF "max_step" \notin DOMAIN S[1].attrs /\ ~isfloat
    THEN [err |-> "TypeError", attrs |-> a2]
    ELSE Solver_set_internal_parameters(S, 1, a3, tp, "float")

Adaptive_set_internal_parameters_max(S, tp, isfloat, a1, a2) ==
    Adaptive_set_internal_parameters_steps(S, tp, isfloat, a1, a2,
        SetIfAbsent(a2, "max_step", PyFloat(10 * Maximum(TimeSteps(tp)), 1)))

Adaptive_set_internal_parameters_min(S, tp, isfloat, a1) ==
    Adaptive_set_internal_parameters_max(S, tp, isfloat, a1,
        SetIfAbsent(a1, "min_step", PyFloat(Minimum(TimeSteps(tp)), 10)))

Adaptive_set_internal_parameters(S, tp, isfloat) ==
    Adaptive_set_internal_parameters_min(S, tp, isfloat,
        SetIfAbsent(S[1].attrs, "first_step", PyFloat(tp[2] - tp[1], 1)))

\* AdaptiveResidual.solve up to its loop over the caller's intervals
ResidualSolveBegin(tp, isfloat) ==
    /\ CanSolve
    /\ solvers[1].kind = "AdaptiveResidual"
    /\ \E sip \in {Adaptive_set_internal_parameters(solvers, tp, isfloat)} :
       \E v \in {IF sip.err # "" THEN sip.err
                 ELSE IF solvers[1].U0.ty \notin {"float", "int"} THEN "TypeError"
                 ELSE validate_data(solvers[1].kind, sip.attrs, tp)} :
          /\ solvers' = <<[solvers[1] EXCEPT !.attrs = sip.attrs],
                          IF v = "" THEN [solvers[2] EXCEPT !.U0 = solvers[1].U0,
                                                           !.neq = solvers[1].neq]
                          ELSE solvers[2]>>
          /\ self_t' = IF v = "" THEN <<Pt(0, 0, 0)>> ELSE tp
          /\ self_u' = IF v = "" THEN <<Pt(0, 0, 0)>>
                       ELSE IF sip.err = "" THEN <<solvers[1].U0.num>> \o Zeros(Len(tp) - 1)
                       ELSE self_u
          /\ raised' = v
          /\ pc' = IF v # "" THEN "raised" ELSE IF Len(tp) = 1 THEN "done" ELSE "attempt"
    /\ time_points' = tp
    /\ ar' = [k |-> 1, ntpoints |-> 1, unew |-> <<>>, tnew |-> <<>>, bound |-> FALSE]
    /\ calls' = <<>>
    /\ terminated' = FALSE
    /\ UNCHANGED <<prev, last, self_n, f_n_1, hist, inner, rk>>

\* a comparison with min_step that never breaks the loop
TooSmall_never(L, ntpoints, min_step) == FALSE

\* "dt < self.min_step" and "dt > self.max_step" for dt = L/(ntpoints - 1)
TooSmall(L, ntpoints, min_step) == L * min_step.den < min_step.num * (ntpoints - 1)
TooLarge(L, ntpoints, max_step) == L * max_step.den > max_step.num * (ntpoints - 1)

\* One pass of "while R > self.atol": the sub-grid is doubled and, unless the
\* step leaves [min_step, max_step], the inner solver solves on it. m is the
\* number of points the inner solve returns (fewer than ntpoints when terminate
\* stopped it) and large tells whether the residual of its last step exceeds
\* atol; on an interval of length zero the residual is nan, which does not.
\* "self.solver.solve(time_points, terminate)" hands the caller's predicate to
\* the inner solver, whose time loop evaluates it after each of its steps.
ResidualAttempt(m, large) ==
    LET k == ar.k
        ntpoints == 2 * ar.ntpoints
        L == time_points[k + 1] - time_points[k]
        stop == \/ TooSmall(L, ntpoints, solvers[1].attrs["min_step"])
                \/ TooLarge(L, ntpoints, solvers[1].attrs["max_step"])
    IN  /\ pc = "attempt"
        /\ IF stop
           THEN /\ m = 2 /\ ~large
                /\ ar' = [ar EXCEPT !.ntpoints = ntpoints]
                /\ pc' = "extend"
                /\ solvers' = solvers
                /\ terminated' = terminated
                /\ calls' = calls
           ELSE /\ ntpoints <= MaxNtpoints
                /\ m <= ntpoints
                /\ L = 0 => ~large
                /\ ar' = [ar EXCEPT !.ntpoints = ntpoints,
                                    !.unew = [j \in 1..m |-> Pt(k, ntpoints, j - 1)],
                                    !.tnew = [j \in 1..m |-> Pt(k, ntpoints, j - 1)],
                                    !.bound = TRUE]
                /\ solvers' = [solvers EXCEPT ![2].U0 = Val("float", Len(self_u), 1, "self.u")]
                /\ terminated' = (terminated \/ m < ntpoints)
                /\ calls' = calls \o
                      [j \in 1..(m - 1) |->
                          [op |-> "terminate", n |-> j, ret |-> (j = m - 1 /\ m < ntpoints),
                           val |-> 0, by |-> "solver"]]
                /\ pc' = IF large THEN "attempt" ELSE "extend"
        /\ UNCHANGED <<prev, last, time_points, self_t, self_u, self_n, raised,
                       f_n_1, hist, inner, rk>>

\* "self.u.extend(unew[1:]); self.t.extend(tnew[1:])" and the step of the loop
\* over the caller's intervals; unew is not bound when the first pass of the
\* first interval left the while loop before the inner solve
ResidualExtend ==
    /\ pc = "extend"
    /\ IF ~ar.bound
       THEN /\ raised' = "UnboundLocalError"
            /\ pc' = "raised"
            /\ UNCHANGED <<self_u, self_t, ar>>
       ELSE /\ self_u' = self_u \o Tail(ar.unew)
            /\ self_t' = self_t \o Tail(ar.tnew)
            /\ raised' = raised
            /\ pc' = IF ar.k + 1 <= Len(time_points) - 1 THEN "attempt" ELSE "done"
            /\ ar' = IF ar.k + 1 <= Len(time_points) - 1
                     THEN [ar EXCEPT !.k = @ + 1, !.ntpoints = 1]
                     ELSE ar
    /\ UNCHANGED <<solvers, prev, last, time_points, self_n, calls, terminated, f_n_1,
                   hist, inner, rk>>

(* ------------------ one instance: the stepped solve ------------------- *)
\* what the AdaptiveResidual instance is constructed with
ResidualArguments ==
    {<<>>, [max_step |-> PyFloat(3, 2)], [min_step |-> PyFloat(1, 2)]}

\* what an instance of a multistep kind is constructed with
StarterArguments == {<<>>, [start_method |-> PyStr("AdamsBashforth2")]}

\* a grid of two intervals of different lengths for AdaptiveResidual.solve
ResidualGrids == {<<0, 1, 3>>}

InitLoop ==
    /\ \E kind \in LoopKinds, f \in {PyFunc("f1"), PyNone} :
          solvers \in IF kind = "AdaptiveResidual"
                      THEN {AdaptiveResidual_init(1, f, kw) : kw \in ResidualArguments}
                      ELSE IF kind \in MultistepKinds
                      THEN {<<Construct(1, kind, f, kw).self>> : kw \in StarterArguments}
                      ELSE {<<Construct(1, kind, f, <<>>).self>>}
    /\ prev = solvers
    /\ last = Op("init", 1, "")
    /\ Idle

NextLoop ==
    \/ \E U0 \in LoopInitialConditions : LoopSetInitialCondition(U0)
    \/ \E tp \in LoopGrids \cup MultistepGrids : SolveBegin(tp)
    \/ Advance
    \/ \E ret \in BOOLEAN : Terminate(ret)
    \/ \E tp \in LoopGrids \cup ResidualGrids, isfloat \in BOOLEAN :
          ResidualSolveBegin(tp, isfloat)
    \/ \E m \in 2..MaxNtpoints, large \in BOOLEAN : ResidualAttempt(m, large)
    \/ ResidualExtend
    \/ Return

SpecLoop == InitLoop /\ [][NextLoop]_vars

(* --------------- one implicit instance: the stepped solve -------------- *)
MaxIter == 3 \* the values of max_iter are 0..MaxIter

\* what the implicit instance is constructed with besides max_iter
ImplicitArguments ==
    {<<>>,
     [theta |-> PyInt(0)],
     [theta |-> PyInt(1)],
     [eps_iter |-> PyFloat(100, 1)],
     [relaxation |-> PyFloat(1, 2)],
     [nonlinear_solver |-> PyStr("Newton")],
     [nonlinear_solver |-> PyStr("Newton"), jac |-> PyFunc("jac1")],
     [nonlinear_solver |-> PyStr("Newton"), jac |-> PyFunc("jac1"), theta |-> PyInt(1)],
     [nonlinear_solver |-> PyStr("Newton"), jac |-> PyFunc("jac1"),
      relaxation |-> PyFloat(1, 2)],
     [nonlinear_solver |-> PyStr("FixedPoint")],
     [nonlinear_solver |-> PyStr("Foo")]}

\* what the implicit kinds other than ThetaRule are constructed with
NewtonArguments ==
    {<<>>, [nonlinear_solver |-> PyStr("Newton"), jac |-> PyFunc("jac1")]}

InitImplicit ==
    /\ \E kind \in ImplicitKinds, kw \in ImplicitArguments, max_iter \in 0..MaxIter :
          /\ kind # "ThetaRule" => kw \in NewtonArguments
          /\ solvers = <<[Construct(1, kind, PyFunc("f1"),
                                 kw @@ [x \in {"max_iter"} |-> PyInt(max_iter)]).self
                       EXCEPT !.U0 = InitialCondition(PyInt(1)).U0,
                              !.neq = InitialCondition(PyInt(1)).neq]>>
    /\ prev = solvers
    /\ last = Op("init", 1, "")
    /\ Idle

NextImplicit ==
    \/ \E tp \in LoopGrids : SolveBegin(tp)
    \/ Advance
    \/ \E ret \in BOOLEAN : Terminate(ret)
    \/ Return

SpecImplicit == InitImplicit /\ [][NextImplicit]_vars

(* --------------- one instance: the embedded pair's solve --------------- *)
\* what the RKFehlberg instance is constructed with
FehlbergArguments ==
    {<<>>,
     [first_step |-> PyFloat(2, 1)],
     [min_step |-> PyFloat(0, 1)],
     [min_step |-> PyFloat(0, 1), first_step |-> PyFloat(0, 1)],
     [min_step |-> PyFloat(1, 4), max_step |-> PyFloat(1, 2), first_step |-> PyFloat(1, 2)]}

\* the time points of the solve calls
FehlbergGrids == {<<0, 1>>, <<1, 0>>, <<0, 1, 0>>}

InitFehlberg ==
    /\ \E kw \in FehlbergArguments :
          solvers = <<[Construct(1, "RKFehlberg", PyFunc("f1"), kw).self
                       EXCEPT !.U0 = InitialCondition(PyInt(1)).U0,
                              !.neq = InitialCondition(PyInt(1)).neq]>>
    /\ prev = solvers
    /\ last = Op("init", 1, "")
    /\ Idle

NextFehlberg ==
    \/ \E tp \in FehlbergGrids : SolveBegin(tp)
    \/ RKFehlberg_advance_begin
    \/ \E s \in StepFactors, close \in BOOLEAN : RKFehlberg_advance_pass(s, close)
    \/ RKFehlberg_advance_return
    \/ \E ret \in BOOLEAN : Terminate(ret)
    \/ Return

SpecFehlberg == InitFehlberg /\ [][NextFehlberg]_vars

\* the solve call runs on: no step of it that is possible is put off for ever
FairFehlberg == InitFehlberg /\ [][NextFehlberg]_vars /\ WF_vars(NextFehlberg)


(* ============================ properties =============================== *)
(* ---- set, get and solve on one instance (specifications Spec and ------ *)
(* ---- SpecParams) ------------------------------------------------------ *)

\* C1: a set call that raises, for whatever reason, has assigned and removed
\* nothing: get(None) returns the mapping it returned before the call.
C1_SetAllOrNothing ==
    (last.op = "set" /\ last.err # "") =>
        get(solvers[last.id]) = get(prev[last.id])

\* C2: a set call that supplies, for a legal name with a declared type, a value
\* of another type raises and leaves the configuration exactly as it was.
C2_WrongTypeRejected ==
    (last.op = "set" /\ last.badtype) =>
        /\ last.err # ""
        /\ solvers[last.id].attrs = prev[last.id].attrs

\* C10: get, set_initial_condition and solve leave every assigned parameter
\* value as it was: get(None) after the call equals get(None) before it.
C10_OnlySetChanges ==
    last.op \in {"get", "set_initial_condition", "solve"} =>
        get(solvers[last.id]) = get(prev[last.id])

\* C11: get(name) returns the value assigned to the parameter name and raises
\* when name has no assigned parameter value, whether or not name is a parameter
\* of the kind; get(None) returns exactly the parameter names that have a value,
\* each with its value.
C11_GetReturnsAssigned ==
    /\ last.op = "get_name" =>
          IF last.target \in LegalNames(solvers[last.id].kind)
             /\ last.target \in DOMAIN solvers[last.id].attrs
          THEN /\ last.err = ""
               /\ last.kw[last.target] = solvers[last.id].attrs[last.target]
          ELSE last.err # ""
    /\ last.op = "get" =>
          /\ DOMAIN last.kw = LegalNames(solvers[last.id].kind)
                                  \cap DOMAIN solvers[last.id].attrs
          /\ \A name \in DOMAIN last.kw : last.kw[name] = solvers[last.id].attrs[name]

\* C13: a set call that supplies, for a legal name, a value outside the
\* declared range of the parameter (a number outside the closed interval, or a
\* value that is not a number and not in the listed set) raises; a set call
\* that supplies only a number equal to an endpoint of the interval returns.
C13_OutOfRangeRejected ==
    last.op = "set" =>
        /\ last.badrange => last.err # ""
        /\ last.endpoint => last.err = ""

(* ---- switch_to (specification SpecSwitch) ----------------------------- *)
\* the last call was a switch_to that returned; its source and the new instance
Switched == last.op = "switch_to" /\ last.err = ""
Source == solvers[last.id]
New == solvers[Len(solvers)]

\* the names whose values switch_to hands to the constructor of the target
Carried(source_kind, target) ==
    (optional_parameters(source_kind) \cap optional_parameters(target))
        \ {"f_args", "f_kwargs"}

C8_SwitchCarriesRhs ==
    Switched =>
        IF "f" \in DOMAIN last.kw
        THEN IF last.kw["f"] = PyNone
             THEN "f" \notin DOMAIN New.attrs
             ELSE /\ "f" \in DOMAIN New.attrs
                  /\ New.attrs["f"] = Wrap(Len(solvers), last.kw["f"])
        ELSE IF "f" \in DOMAIN Source.attrs
             THEN /\ "f" \in DOMAIN New.attrs
                  /\ New.attrs["f"] = Wrap(Len(solvers), Source.attrs["f"])
             ELSE "f" \notin DOMAIN New.attrs

\* C8 as stated: unless f is given in the call, the new instance has no
\* right-hand side.
C8_SwitchDropsRhs ==
    (Switched /\ "f" \notin DOMAIN last.kw) => "f" \notin DOMAIN New.attrs

\* a switch_to without f from a source that has one: the new instance calls the
\* user's function of the source
C8_Witness ==
    /\ Switched
    /\ "f" \notin DOMAIN last.kw
    /\ "f" \in DOMAIN New.attrs
    /\ Rhs(solvers, Len(solvers)).fn = "f1"

\* C9: a set call on one instance changes neither the configuration of any
\* other instance nor what the right-hand side of any other instance does.
C9_SwitchedIndependent ==
    last.op = "set" =>
        \A j \in 1..Len(solvers) :
            j # last.id =>
                /\ solvers[j] = prev[j]
                /\ Rhs(solvers, j) = Rhs(prev, j)

(* ---- the time loop (specification SpecLoop) --------------------------- *)
\* the instance that solves runs the loop of Solver.solve
BaseLoop == solvers[1].kind \in LoopKinds \ {"AdaptiveResidual"}

\* the solve call has returned u and t (self_u and self_t)
Returned == pc = "done"

\* strictly ascending or strictly descending, with at least 2 points
StrictlyMonotonic(tp) ==
    /\ Len(tp) >= 2
    /\ \/ \A k \in 1..(Len(tp) - 1) : tp[k] < tp[k + 1]
       \/ \A k \in 1..(Len(tp) - 1) : tp[k] > tp[k + 1]

\* C3: a solve call on time points that are not strictly monotonic, or are
\* fewer than 2, raises before any step is advanced.
C3_RejectsBadGrids ==
    (pc # "idle" /\ ~StrictlyMonotonic(time_points)) =>
        (pc = "raised" /\ calls = <<>>)

\* C4 (as the code has it): the u and t that solve returns have equal length;
\* from the loop of Solver.solve that length is at most the number of the
\* caller's time points and smaller only if terminate returned True; from
\* AdaptiveResidual.solve it is at least the number of the caller's time points.
C4_ReturnedLengths ==
    Returned =>
        /\ Len(self_u) = Len(self_t)
        /\ IF BaseLoop
           THEN /\ Len(self_u) <= Len(time_points)
                /\ Len(self_u) < Len(time_points) => terminated
           ELSE Len(self_u) >= Len(time_points)

\* C4 as stated: for every kind the returned u and t have equal length, at most
\* the number of the caller's time points, and smaller only if terminate
\* returned True.
C4_AtMostCallerPoints ==
    Returned =>
        /\ Len(self_u) = Len(self_t)
        /\ Len(self_u) <= Len(time_points)
        /\ Len(self_u) < Len(time_points) => terminated

\* AdaptiveResidual.solve has returned more points than the caller gave, and
\* the loop of Solver.solve can return fewer
C4_Witness ==
    /\ Returned
    /\ ~BaseLoop
    /\ Len(self_u) > Len(time_points)
    /\ Len(self_u) = Len(self_t)

\* the calls the loop makes up to and including terminate(u, t, n + 1), all
\* predicate calls before that one returning False and that one returning ret
LoopCalls(n, ret) ==
    [k \in 1..(2 * (n + 1)) |->
        IF k % 2 = 1
        THEN [op |-> "advance", n |-> (k - 1) \div 2, ret |-> FALSE]
        ELSE [op |-> "terminate", n |-> k \div 2, ret |-> (ret /\ k = 2 * (n + 1))]]

\* the calls made, without the values advance returned
CallsMade == [k \in DOMAIN calls |-> [op |-> calls[k].op, n |-> calls[k].n,
                                      ret |-> calls[k].ret]]

\* C5: when the loop of Solver.solve returns after terminate first returned
\* True, at the step from n to n + 1, u and t have exactly n + 2 entries, t is
\* the first n + 2 time points, the last entry of u is the value the last
\* advance returned, and the calls made are advance and terminate for the
\* steps 0..n and no other; when terminate never returned True, every interval
\* 0..N-1 was advanced, in increasing order, and u and t have all N + 1 entries.
C5_TerminateTruncates ==
    (Returned /\ BaseLoop) =>
        IF terminated
        THEN /\ Len(self_u) = self_n + 2
             /\ self_t = SubSeq(time_points, 1, self_n + 2)
             /\ CallsMade = LoopCalls(self_n, TRUE)
             /\ self_u[self_n + 2] = calls[2 * self_n + 1].val
        ELSE /\ Len(self_u) = Len(time_points)
             /\ self_t = time_points
             /\ CallsMade = LoopCalls(Len(time_points) - 2, FALSE)

\* terminate returned True at the first of two steps: the arrays are cut short
C5_Witness ==
    /\ Returned
    /\ BaseLoop
    /\ terminated
    /\ self_n = 0
    /\ Len(time_points) = 3
    /\ Len(self_u) = 2

\* the value satisfies the declared type, range and extra_check of the parameter
SatisfiesEntry(name, v) ==
    /\ TypeAccepts(Parameters[name].type, v)
    /\ InDeclaredRange(v, Parameters[name].range)
    /\ ExtraCheckHolds(Parameters[name].extra_check, v)

\* C12: in every state reached by construction, set_initial_condition and
\* solve, every name with an assigned value is a required or optional parameter
\* of the kind of its instance, and every assigned value, defaults included,
\* satisfies the declared type, range and extra_check of its parameter.
C12_AssignedValuesValid ==
    \A i \in 1..Len(solvers) :
        \A name \in DOMAIN solvers[i].attrs :
            /\ name \in LegalNames(solvers[i].kind)
            /\ SatisfiesEntry(name, solvers[i].attrs[name])

\* C14: validate_data of a multistep solver on a time grid that is not uniform
\* raises no exception: a solve call of an AdamsBashforth2 with an initial
\* condition on such a grid does not end in an exception before the time loop.
C14_NonUniformReported ==
    (/\ pc # "idle"
     /\ solvers[1].kind = "AdamsBashforth2"
     /\ solvers[1].U0 # Unset
     /\ ~constant_time_step(time_points)) =>
        ~(pc = "raised" /\ calls = <<>>)

\* the caller's time points ascend strictly
StrictlyAscending(tp) == \A k \in 1..(Len(tp) - 1) : tp[k] < tp[k + 1]

\* the time of the point p of a sub-grid of AdaptiveResidual.solve is before the
\* last of the caller's time points tp: tp[k] + j*(tp[k+1] - tp[k])/(ntpoints - 1)
\* < tp[-1], both sides scaled by ntpoints - 1
BeforeFinal(p, tp) ==
    /\ p.k >= 1
    /\ tp[p.k] * (p.ntpoints - 1) + p.j * (tp[p.k + 1] - tp[p.k])
           < tp[Len(tp)] * (p.ntpoints - 1)

\* C15: when terminate returned True during a solve of AdaptiveResidual (on
\* strictly ascending time points), the solve stops there: the last t returned
\* is strictly before the last of the caller's time points.
C15_ResidualStopsOnTerminate ==
    (Returned /\ ~BaseLoop /\ terminated /\ StrictlyAscending(time_points)) =>
        BeforeFinal(self_t[Len(self_t)], time_points)

Steps(kind) ==
    CASE kind = "AdamsBashforth2" -> 2
      [] kind = "AdamsBashforth3" -> 3
      [] kind = "AdamsBashforth4" -> 4

C19_InnerIterationBounded ==
    (solvers[1].kind \in ImplicitKinds /\ calls # <<>> /\ calls[Len(calls)].op = "advance"
        /\ calls[Len(calls)].by = "implicit") =>
        /\ Len(inner) <= solvers[1].attrs["max_iter"].num
        /\ \A k \in DOMAIN inner : inner[k].err = ""
        /\ pc # "raised"
        /\ \A k \in 1..(Len(inner) - 1) :
              Exceeds(inner[k].error, Rat(solvers[1].attrs["eps_iter"].num,
                                          solvers[1].attrs["eps_iter"].den))
        /\ Len(inner) < solvers[1].attrs["max_iter"].num =>
              /\ inner # <<>>
              /\ ~Exceeds(inner[Len(inner)].error,
                          Rat(solvers[1].attrs["eps_iter"].num,
                              solvers[1].attrs["eps_iter"].den))
        /\ inner # <<>> => self_u[self_n + 2] = inner[Len(inner)].next

\* C20: every pass of the inner iteration of an implicit advance leaves as the
\* next iterate r times the newly computed guess plus (1 - r) times the iterate
\* the pass started from, r being the relaxation parameter; with r = 1 that is
\* the newly computed guess.
C20_RelaxationBlendsIterates ==
    \A k \in DOMAIN inner :
        inner[k].err = "" =>
            /\ inner[k].next =
                  Float("+",
                        Float("*", Rat(solvers[1].attrs["relaxation"].num,
                                       solvers[1].attrs["relaxation"].den),
                              inner[k].unew),
                        Float("*", Rat(solvers[1].attrs["relaxation"].den -
                                           solvers[1].attrs["relaxation"].num,
                                       solvers[1].attrs["relaxation"].den),
                              inner[k].old))
            /\ solvers[1].attrs["relaxation"] = PyFloat(1, 1) =>
                  inner[k].next = inner[k].unew

\* C6: a solve call on an instance whose required parameter f has no value
\* raises before the first advance.
C6_MissingRequiredRejected ==
    (pc # "idle" /\ "f" \notin DOMAIN solvers[1].attrs) =>
        (pc = "raised" /\ calls = <<>>)

\* the passes of the advance that has just run made by Newton's method
NewtonPasses ==
    IF pc \in {"terminate", "raised"} /\ solvers[1].kind \in ImplicitKinds
    THEN {k \in DOMAIN inner : inner[k].err = "" /\ inner[k].F # Unset}
    ELSE {}

\* C21: for every implicit scheme and every trial guess ukp1 the residual F
\* that Newton_system returns equals ukp1 minus Picard_update(ukp1)
C21_ResidualIsGuessMinusPicard ==
    \A k \in NewtonPasses :
        inner[k].F =
            Float("+", inner[k].old,
                  Float("*", Rat(-1, 1),
                        Picard_update(solvers, self_u, self_t, self_n, inner[k].old)))

\* the interval of the running RKFehlberg.advance, in fixed-point units
Interval ==
    [from |-> self_t[self_n + 1] * Resolution, to |-> self_t[self_n + 2] * Resolution]

\* x lies between a and b, whichever of them is larger
Between(a, x, b) == (a <= x /\ x <= b) \/ (b <= x /\ x <= a)

\* C22: in one embedded-pair advance from t[n] to t[n+1], ascending or
\* descending and for any first_step, every time appended to twork lies between
\* t[n] and t[n+1], and the value returned is the last accepted u, whose time
\* is t[n+1]
C22_SubstepsStayInInterval ==
    /\ pc = "substep" => Between(Interval.from, rk.twork, Interval.to)
    /\ (pc = "terminate" /\ solvers[1].kind = "RKFehlberg") =>
          /\ self_u[self_n + 2] = rk.uwork
          /\ self_u[self_n + 2] = Interval.to

\* the spacings of the caller's time points, in fixed-point units
Spacings == {Abs(time_points[k + 1] - time_points[k]) * Resolution :
                k \in 1..(Len(time_points) - 1)}

\* C23: where the caller has not assigned them, h is seeded with t[1] - t[0],
\* min_step is 1/10 of the smallest spacing of the caller's time points and
\* max_step is 10 times the largest; after every rescale h lies within
\* [min_step, max_step]
C23_StepBoundsFromCallerGrid ==
    (pc = "substep" /\ time_points[1] < time_points[2]) =>
        /\ ("first_step" \notin DOMAIN solvers[1].attrs /\ rk.passes = 0) =>
              rk.h = (time_points[2] - time_points[1]) * Resolution
        /\ "min_step" \notin DOMAIN solvers[1].attrs =>
              10 * rk.min_step = Min(Spacings)
        /\ "max_step" \notin DOMAIN solvers[1].attrs =>
              \A d \in Spacings : rk.max_step >= 10 * d
        /\ rk.passes > 0 => (rk.min_step <= rk.h /\ rk.h <= rk.max_step)

\* C24: every embedded-pair advance terminates: the internal time reaches
\* t[n+1] after finitely many substeps for every error sequence
C24_AdvanceTerminates == (pc = "substep") ~> (pc # "substep")

\* an AdaptiveResidual instance solves
Residual == solvers[1].kind = "AdaptiveResidual" /\ pc # "idle"

\* the length of the caller's interval that AdaptiveResidual.solve works on
Length == time_points[ar.k + 1] - time_points[ar.k]

\* the while loop of the interval was left by one of its two break statements
Aborted ==
    /\ Residual
    /\ pc = "extend"
    /\ \/ TooSmall(Length, ar.ntpoints, solvers[1].attrs["min_step"])
       \/ TooLarge(Length, ar.ntpoints, solvers[1].attrs["max_step"])

\* C25: when the refinement of a caller's interval is aborted because the
\* sub-step leaves [min_step, max_step], also on the first attempt of the
\* interval, solve does not raise: the result it appends was computed for that
\* same interval, starting from the last accepted u
C25_AbortAppendsIntervalResult ==
    Residual =>
        /\ raised # "UnboundLocalError"
        /\ Aborted =>
              /\ ar.bound
              /\ \A j \in DOMAIN ar.unew : ar.unew[j].k = ar.k
              /\ solvers[2].U0.num = Len(self_u)

\* the time of the entry p of self.t as the fraction TimeNum(p) / TimeDen(p)
TimeNum(p) ==
    IF p.k = 0 THEN time_points[1]
    ELSE time_points[p.k] * (p.ntpoints - 1) +
         (time_points[p.k + 1] - time_points[p.k]) * p.j

TimeDen(p) == IF p.k = 0 THEN 1 ELSE p.ntpoints - 1

\* the time of p is before the time of q
Earlier(p, q) == TimeNum(p) * TimeDen(q) < TimeNum(q) * TimeDen(p)

\* C26: the t that AdaptiveResidual.solve returns without early termination,
\* for strictly monotonic time points of the caller, starts at the caller's first time point, is strictly monotonic and contains
\* every time point of the caller; the inner solve of an interval starts from
\* the u returned for the end of the interval before
C26_ReturnedGridRefinesCallers ==
    /\ (Residual /\ Returned /\ ~terminated /\ StrictlyMonotonic(time_points)) =>
          /\ self_t[1] = Pt(0, 0, 0)
          /\ \/ \A i \in 1..(Len(self_t) - 1) : Earlier(self_t[i], self_t[i + 1])
             \/ \A i \in 1..(Len(self_t) - 1) : Earlier(self_t[i + 1], self_t[i])
          /\ \A n \in DOMAIN time_points :
                \E i \in DOMAIN self_t :
                    TimeNum(self_t[i]) = time_points[n] * TimeDen(self_t[i])
          /\ Len(self_u) = Len(self_t)
    /\ (Residual /\ pc \in {"attempt", "extend"} /\ ~terminated /\ ar.bound
          /\ ar.unew[1].k = ar.k) =>
          /\ solvers[2].U0.num = Len(self_u)
          /\ TimeNum(self_t[Len(self_t)]) =
                time_points[ar.k] * TimeDen(self_t[Len(self_t)])

\* C27: in every solve the terminate predicate is evaluated once per interval
\* of the caller, by the caller's time loop after the advance of that interval
\* and with its step index, and never by a solve made for sub-steps or for a
\* refinement attempt
C27_TerminateOncePerInterval ==
    /\ \A i \in DOMAIN calls :
          calls[i].op = "terminate" =>
              /\ calls[i].by = ""
              /\ i > 1
              /\ calls[i - 1].op = "advance"
              /\ calls[i - 1].n + 1 = calls[i].n
    /\ (Returned /\ ~terminated /\ Len(time_points) >= 2) =>
          Cardinality({i \in DOMAIN calls : calls[i].op = "terminate"}) =
              Len(time_points) - 1

\* C28: with min_step greater than 0 the refinement loop of a caller's
\* interval makes a bounded number of inner solves whatever the residuals are:
\* it is left as soon as the sub-step is below min_step, so an inner solve is
\* made on ntpoints points only while (ntpoints - 1) * min_step is at most the
\* length of the interval
C28_RefinementBounded ==
    (Residual /\ pc \in {"attempt", "extend"} /\ ar.bound /\ Length > 0
        /\ solvers[1].attrs["min_step"].num > 0) =>
        /\ \A j \in DOMAIN ar.unew :
              ar.unew[j].k = ar.k =>
                  (ar.unew[j].ntpoints - 1) * solvers[1].attrs["min_step"].num
                      <= Length * solvers[1].attrs["min_step"].den
        /\ (pc = "attempt" /\ ar.ntpoints >= 2) =>
              (ar.ntpoints - 1) * solvers[1].attrs["min_step"].num
                  <= Length * solvers[1].attrs["min_step"].den

\* the residual stayed above atol and the loop was left because the sub-step
\* fell below the caller's min_step, after an inner solve for that interval
C28_Witness ==
    /\ Aborted
    /\ solvers[1].attrs["min_step"] = PyFloat(1, 2)
    /\ Length > 0
    /\ ar.bound
    /\ ar.unew[1].k = ar.k
    /\ 2 * ar.unew[1].ntpoints = ar.ntpoints
    /\ TooSmall(Length, ar.ntpoints, solvers[1].attrs["min_step"])

\* min_step and max_step as Adaptive.set_internal_parameters leaves them on an
\* instance constructed as this one was (prev) that solves on time_points
FreshSteps ==
    [min_step |-> SetIfAbsent(prev[1].attrs, "min_step",
                              PyFloat(Minimum(TimeSteps(time_points)), 10))["min_step"],
     max_step |-> SetIfAbsent(prev[1].attrs, "max_step",
                              PyFloat(10 * Maximum(TimeSteps(time_points)), 1))["max_step"]]

\* C30: solve is repeatable on one instance: after earlier solve calls it does
\* what the same solve does on a freshly constructed instance with that U0 and
\* configuration. For AdaptiveResidual: the refinement of an interval is given
\* up at a sub-grid exactly when the fresh instance gives it up there, state
\* left by an earlier solve (step bounds derived from an earlier grid) having
\* no effect.
C30_SolveRepeatable ==
    (Residual /\ pc = "extend" /\ StrictlyMonotonic(time_points)) =>
        (Aborted <=>
            \/ TooSmall(Length, ar.ntpoints, FreshSteps.min_step)
            \/ TooLarge(Length, ar.ntpoints, FreshSteps.max_step))

\* C29: the bootstrap of a multistep solver terminates for every start_method
\* that set accepts, the name of a multistep solver included: the nested
\* starter solves come to an end, none of them running into the recursion limit
C29_BootstrapTerminates ==
    (solvers[1].kind \in MultistepKinds /\ pc # "idle") => raised # "RuntimeError"

====
